---- MODULE Spec2Model ----
(***************************************************************************)
(* Ledger store of the leaderboard bot (src/bot/leaderboard.py).           *)
(*                                                                         *)
(* The store is a PostgreSQL database reached through an asyncpg pool.     *)
(* Every statement outside update_points runs in its own implicit          *)
(* transaction; update_points runs its statements inside one explicit      *)
(* transaction at the server's default isolation level (READ COMMITTED):   *)
(* a statement sees the rows committed when it starts plus the             *)
(* transaction's own writes, a row write takes the row's lock until the    *)
(* transaction ends, and a statement that needs a locked row waits.        *)
(* Handlers are coroutines: they interleave at every await, so every       *)
(* statement of update_points is a step of its own.                        *)
(***************************************************************************)
EXTENDS Integers, Sequences, FiniteSets, TLC

\* ---------------------------------------------------------------- bounds
\* MaxPoints: update_points writes no value above it.  MaxClock: the clock
\* stops there.  MaxPerPage, MaxPage: the page sizes and page numbers asked.
MaxPoints == 3
MaxClock == 4
MaxPerPage == 2
MaxPage == 3

\* Guild 1 has three members, guild 2 one; the handlers of Spec run on the
\* keys of OpKeys.
Guilds == {1, 2}
Users == {1, 2, 3}
Keys == {<<1, 1>>, <<1, 2>>, <<1, 3>>, <<2, 1>>}
OpKeys == {<<1, 1>>, <<1, 2>>}
Txns == {1, 2}
\* Display names; none is longer than 255 characters, so username[:255] is
\* the name itself.  NoName: username None (or empty), falsy in Python.
Names == {"ann", "Bob"}
NoName == ""
\* username arguments of update_points: absent, or a display name.
UpNames == {NoName, "ann"}
Deltas == {-2, 1}
Pages == 0..MaxPage
PerPages == 1..MaxPerPage
\* fetchval returning None (no row).
NoneVal == -1

\* pool      the connection pool exists (initialize_db has run)
\* led       the committed rows of table leaderboard, by (guild_id, user_id)
\* profiles  the keys that have a row in table user_profiles
\* now       the clock: datetime.now() and CURRENT_TIMESTAMP read it, and it
\*           advances with every reading that is stored
\* tx        the update_points calls in flight, one per pool connection
\* ret       the last call that returned and its return value
\* batch     the calls of a batch of concurrent update_points calls
\* views, registry, bc             the leaderboard views (src/bot/commands.py)
\* role_rewards .. tasks            the reward scheduler (src/bot/role_rewards.py)
\* guild_config   the rows of table guild_config, by (guild_id, config_key)
\* text_channels  guild.text_channels of guild 1, as the bot's cache holds it
\* role_ids       the role ids of member 1 of guild 1, as the cache holds them
VARIABLES pool, led, profiles, now, tx, ret, batch,
          views, registry, bc,
          role_rewards, reward_intervals, last_reward_time, active_tasks,
          tasks,
          guild_config, text_channels, role_ids
viewVars == <<views, registry, bc>>
rewardVars == <<role_rewards, reward_intervals, last_reward_time,
                active_tasks, tasks>>
noteVars == <<guild_config, text_channels, role_ids>>
vars == <<pool, led, profiles, now, tx, ret, batch, viewVars, rewardVars,
          noteVars>>

\* ------------------------------------------------------------ rows, keys
GuildOf(k) == k[1]
UserOf(k) == k[2]

NewRow(name, t) ==
    [username |-> name, points |-> 0, last_updated |-> t, created_at |-> t]

IdleTx ==
    [pc |-> "idle", key |-> <<1, 1>>, change |-> 1, username |-> NoName,
     start |-> 0, cur |-> NoneVal,
     dirty |-> "none", buf |-> NewRow(NoName, 0), locked |-> FALSE]

\* The transaction that holds the lock of row k (or the uncommitted insert of
\* key k), if any.
Holders(k) == {t \in Txns : tx[t].locked /\ tx[t].key = k}
LockedByOther(k, t) == Holders(k) \ {t} # {}
Locked(k) == Holders(k) # {}

\* ret: the last call that returned, with what it returned; Pending after a
\* step that returns nothing yet.
Pending == [op |-> "pending"]

\* batch: the calls of a batch of concurrent update_points calls on one key
\* and the points the entry held when they were made (SpecBatch); it never
\* changes.
NoBatch == [on |-> FALSE]

\* ------------------------------------------------ views, reward scheduler
\* The view objects, the broadcasts in flight and the reward tasks the
\* model has room for.
ViewIds == {1, 2}
BcIds == {1, 2}
TaskIds == {1, 2}

\* A LeaderboardView as __init__ leaves it (commands.py lines 19-33).  pc is
\* the position of the leaderboard command that makes the view: "none" (no
\* such object yet), "fetch" (the command awaits fetch_leaderboard_data),
\* "send" (it awaits followup.send) or "shown" (it has returned).  message:
\* "none" (None), "live" (the message the command sent) or "gone" (that
\* message was deleted).
NoView ==
    [pc |-> "none", guild_id |-> 1, current_page |-> 1, total_pages |-> 1,
     leaderboard_data |-> <<>>, total_guild_points |-> 0, is_active |-> TRUE,
     message |-> "none"]

\* A handler that ends in a broadcast: pc is "idle" (no handler), "send"
\* (the handler awaits its reply to the interaction), "view" (the loop is at
\* snapshot[i]) or "edit" (auto_update_leaderboard of snapshot[i] has
\* fetched and is about to edit the message).  kind: the loop that runs,
\* "update" (update_active_leaderboards) or "trigger" (the loop of
\* trigger_leaderboard_updates, which calls update_active_leaderboards when
\* it is through).  after: the ledger the handler's update left.  called,
\* failed, retired: the views whose auto_update_leaderboard this broadcast
\* called, those whose edit failed, and those whose message it found gone.
\* Where the awaits of the fetch are steps of their own, pc is also "rows"
\* (line 38 awaits _get_leaderboard_async) or "total" (line 47 awaits
\* get_total_guild_points), and reply is what the store has answered to the
\* awaited call.
IdleBc ==
    [pc |-> "idle", kind |-> "update", guild |-> 1, snapshot |-> <<>>,
     i |-> 1, after |-> <<>>, called |-> {}, failed |-> {}, retired |-> {},
     reply |-> <<>>]

\* A reward task: pc is "none" (no such task), "sleep" (asyncio.sleep until
\* wake), "tick" (_distribute_role_rewards is at member number i of the
\* guild), "apply" (line 146 awaits update_points for member number i),
\* "trigger" (line 175 awaits trigger_leaderboard_updates) or "done" (the
\* coroutine has ended).  role_config, rewards_distributed: the
\* locals of _distribute_role_rewards.  cancelled: Task.cancel() was called.
NoTask ==
    [pc |-> "none", guild |-> 1, wake |-> 0, i |-> 1, role_config |-> <<>>,
     rewards_distributed |-> 0, cancelled |-> FALSE]

NoViews ==
    /\ views = [v \in ViewIds |-> NoView]
    /\ registry = <<>>
    /\ bc = [b \in BcIds |-> IdleBc]

\* No guild_config row, no text channel, and a member who holds no role.
NoNotes ==
    /\ guild_config = <<>>
    /\ text_channels = <<>>
    /\ role_ids = {}

NoRewards ==
    /\ role_rewards = <<>>
    /\ reward_intervals = <<>>
    /\ last_reward_time = <<>>
    /\ active_tasks = <<>>
    /\ tasks = [t \in TaskIds |-> NoTask]

\* ------------------------------------------------------------------ Init
Init ==
    /\ pool = FALSE
    /\ led = <<>>
    /\ profiles = {}
    /\ now = 1
    /\ tx = [t \in Txns |-> IdleTx]
    /\ ret = [op |-> "init"]
    /\ batch = NoBatch
    /\ NoViews
    /\ NoRewards
    /\ NoNotes

\* initialize_db (lines 18-44): creates the pool and the tables.
initialize_db ==
    /\ pool = FALSE
    /\ pool' = TRUE
    /\ ret' = [op |-> "initialize_db", value |-> "True"]
    /\ UNCHANGED <<viewVars, rewardVars, batch, noteVars, led, profiles, now, tx>>

\* --------------------------------------------------------------- add_member
\* INSERT ... VALUES (.., 0, now, now) ON CONFLICT (guild_id, user_id)
\* DO UPDATE SET username, last_updated: the ledger after the statement.
add_member_overwrite(l, k, name, t) ==
    [j \in DOMAIN l \cup {k} |-> IF j = k THEN NewRow(name, t) ELSE l[j]]

add_member_upsert(l, k, name, t) ==
    IF k \in DOMAIN l
    THEN [l EXCEPT ![k].username = name, ![k].last_updated = t]
    ELSE [j \in DOMAIN l \cup {k} |-> IF j = k THEN NewRow(name, t) ELSE l[j]]

add_member(g, u, name) ==
    LET k == <<g, u>> IN
    IF ~pool
    THEN /\ ret' = [op |-> "add_member", key |-> k, value |-> "None",
                    existed |-> FALSE]
         /\ UNCHANGED <<viewVars, rewardVars, batch, noteVars, pool, led, profiles, now, tx>>
    ELSE /\ ~Locked(k)
         /\ now < MaxClock
         /\ led' = add_member_upsert(led, k, name, now)
         /\ now' = now + 1
         /\ ret' = [op |-> "add_member", key |-> k, value |-> "None",
                    existed |-> k \in DOMAIN led]
         /\ UNCHANGED <<viewVars, rewardVars, batch, noteVars, pool, profiles, tx>>

\* ------------------------------------------------------------ remove_member
\* A table user_profiles without its FOREIGN KEY: the row is deleted.
DeleteTagUnreferenced(l, prof, k) ==
    IF k \notin DOMAIN l THEN "DELETE 0" ELSE "DELETE 1"

\* The command tag of DELETE FROM leaderboard WHERE guild_id, user_id: the
\* row is deleted unless a user_profiles row references it (FOREIGN KEY
\* without ON DELETE action: the statement raises).
DeleteTag(l, prof, k) ==
    IF k \notin DOMAIN l THEN "DELETE 0"
    ELSE IF k \in prof THEN "ForeignKeyViolation"
    ELSE "DELETE 1"

DeleteRow(l, k) == [j \in DOMAIN l \ {k} |-> l[j]]

\* What remove_member logs for a command tag (lines 185-191).
remove_log_swapped(tag) ==
    IF tag = "DELETE 0" THEN "info"
    ELSE IF tag = "ForeignKeyViolation" THEN "error" ELSE "warning"

remove_log(tag) ==
    IF tag = "DELETE 1" THEN "info"
    ELSE IF tag = "ForeignKeyViolation" THEN "error" ELSE "warning"

remove_member(g, u) ==
    LET k == <<g, u>>
        tag == DeleteTag(led, profiles, k) IN
    IF ~pool
    THEN /\ ret' = [op |-> "remove_member", key |-> k, value |-> "None",
                    log |-> "error", tag |-> "NoPool"]
         /\ UNCHANGED <<viewVars, rewardVars, batch, noteVars, pool, led, profiles, now, tx>>
    ELSE /\ ~Locked(k)
         /\ led' = IF tag = "DELETE 1" THEN DeleteRow(led, k) ELSE led
         /\ ret' = [op |-> "remove_member", key |-> k, value |-> "None",
                    log |-> remove_log(tag), tag |-> tag]
         /\ UNCHANGED <<viewVars, rewardVars, batch, noteVars, pool, profiles, now, tx>>

\* ------------------------------------------------------ update_user_profile
\* nfields: how many of the keyword arguments name a profile column.
update_user_profile(g, u, nfields) ==
    LET k == <<g, u>>
        ok == pool /\ k \in DOMAIN led /\ nfields > 0 IN
    /\ profiles' = IF ok THEN profiles \cup {k} ELSE profiles
    /\ ret' = [op |-> "update_user_profile", key |-> k,
               value |-> IF ok THEN "True" ELSE "False"]
    /\ UNCHANGED <<viewVars, rewardVars, batch, noteVars, pool, led, now, tx>>

\* ------------------------------------------------------------ update_points
\* The row a statement of transaction t sees for its key: the transaction's
\* own uncommitted version, else the committed one.
Visible(t) == tx[t].dirty # "none" \/ tx[t].key \in DOMAIN led
RowSeen(t) == IF tx[t].dirty # "none" THEN tx[t].buf ELSE led[tx[t].key]

\* CHECK (points >= 0) of the leaderboard table (line 55).
PointsCheck(p) == p >= 0

\* Lines 223-227: the value update_points asks the store to write.
new_points_unclamped(current_points, points_change) ==
    current_points + points_change

new_points(current_points, points_change) ==
    IF current_points + points_change < 0 THEN 0
    ELSE current_points + points_change

\* Line 204: "if username" (None and the empty string are both skipped).
ensure_always(username) == TRUE

ensure_user(username) == username # NoName

\* The coroutine returns: the connection goes back to the pool.
Finish(t) == IdleTx

\* What a call of update_points returns, with its arguments and the points
\* its SELECT read (NoneVal when it read none).
Returned(k, change, username, cur, value) ==
    [op |-> "update_points", key |-> k, change |-> change,
     username |-> username, cur |-> cur, value |-> value]

\* Lines 230-234 with the table's CHECK: the points the UPDATE stores, or
\* a refusal.
update_unvalidated(current_points, points_change) ==
    [ok |-> TRUE, points |-> current_points + points_change]

update_statement(current_points, points_change) ==
    LET np == new_points(current_points, points_change) IN
    [ok |-> PointsCheck(np), points |-> np]

\* The call: line 195, pool.acquire and BEGIN (lines 200-202).
update_points_begin(t, g, u, points_change, username) ==
    /\ tx[t].pc = "idle"
    /\ \A s \in Txns : s < t => tx[s].pc # "idle"
    /\ IF ~pool
       THEN /\ UNCHANGED tx
            /\ ret' = Returned(<<g, u>>, points_change, username, NoneVal,
                               "False")
            /\ UNCHANGED <<viewVars, rewardVars, batch, noteVars, pool, led, profiles, now>>
       ELSE /\ now < MaxClock
            /\ tx' = [tx EXCEPT ![t] = [IdleTx EXCEPT
                        !.pc = IF ensure_user(username) THEN "ensure"
                              ELSE "read",
                        !.key = <<g, u>>,
                        !.change = points_change, !.username = username,
                        !.start = now]]
            /\ now' = now + 1
            /\ ret' = Pending
            /\ UNCHANGED <<viewVars, rewardVars, batch, noteVars, pool, led, profiles>>

\* Lines 204-210: INSERT ... ON CONFLICT DO UPDATE SET username.  The
\* statement locks the row (or the new key); BEFORE UPDATE trigger (lines
\* 90-106) stamps last_updated with the transaction's CURRENT_TIMESTAMP.
update_points_ensure(t) ==
    LET k == tx[t].key IN
    /\ tx[t].pc = "ensure"
    /\ ~LockedByOther(k, t)
    /\ IF k \in DOMAIN led
       THEN /\ tx' = [tx EXCEPT ![t].pc = "read", ![t].locked = TRUE,
                        ![t].dirty = "update",
                        ![t].buf = [led[k] EXCEPT
                            !.username = tx[t].username,
                            !.last_updated = tx[t].start]]
            /\ UNCHANGED now
       ELSE /\ now < MaxClock
            /\ tx' = [tx EXCEPT ![t].pc = "read", ![t].locked = TRUE,
                        ![t].dirty = "insert",
                        ![t].buf = NewRow(tx[t].username, now)]
            /\ now' = now + 1
    /\ ret' = Pending
    /\ UNCHANGED <<viewVars, rewardVars, batch, noteVars, pool, led, profiles>>

\* Lines 213-227: SELECT points; None returns False (the transaction ends).
update_points_read(t) ==
    /\ tx[t].pc = "read"
    /\ IF ~Visible(t)
       THEN /\ tx' = [tx EXCEPT ![t] = Finish(t)]
            /\ ret' = Returned(tx[t].key, tx[t].change, tx[t].username,
                               NoneVal, "False")
       ELSE /\ tx' = [tx EXCEPT
                        ![t].pc = "write",
                        ![t].cur = RowSeen(t).points]
            /\ ret' = Pending
    /\ UNCHANGED <<viewVars, rewardVars, batch, noteVars, pool, led, profiles, now>>

\* Lines 230-238: UPDATE ... SET points = $3.  The statement waits for the
\* row's lock, then writes the latest version of the row; no row gives
\* "UPDATE 0" and returns False; a CHECK violation raises, which rolls the
\* transaction back and returns False (lines 251-253).
update_points_write(t) ==
    LET k == tx[t].key
        upd == update_statement(tx[t].cur, tx[t].change) IN
    /\ tx[t].pc = "write"
    /\ ~LockedByOther(k, t)
    /\ upd.points <= MaxPoints
    /\ IF ~Visible(t) \/ ~upd.ok
       THEN /\ tx' = [tx EXCEPT ![t] = Finish(t)]
            /\ ret' = Returned(k, tx[t].change, tx[t].username, tx[t].cur,
                               "False")
       ELSE /\ tx' = [tx EXCEPT
                        ![t].pc = "commit", ![t].locked = TRUE,
                        ![t].dirty = IF tx[t].dirty = "insert" THEN "insert"
                                     ELSE "update",
                        ![t].buf = [RowSeen(t) EXCEPT
                                        !.points = upd.points,
                                        !.last_updated = tx[t].start]]
            /\ ret' = Pending
    /\ UNCHANGED <<viewVars, rewardVars, batch, noteVars, pool, led, profiles, now>>

\* Lines 241-249: the logging SELECT, return True, COMMIT.
update_points_commit(t) ==
    LET k == tx[t].key IN
    /\ tx[t].pc = "commit"
    /\ led' = [j \in DOMAIN led \cup {k} |-> IF j = k THEN tx[t].buf ELSE led[j]]
    /\ tx' = [tx EXCEPT ![t] = Finish(t)]
    /\ ret' = Returned(k, tx[t].change, tx[t].username, tx[t].cur, "True")
    /\ UNCHANGED <<viewVars, rewardVars, batch, noteVars, pool, profiles, now>>

Next ==
    \/ \E t \in Txns, k \in OpKeys, d \in Deltas, name \in UpNames :
          update_points_begin(t, k[1], k[2], d, name)
    \/ \E t \in Txns : update_points_ensure(t)
    \/ \E t \in Txns : update_points_read(t)
    \/ \E t \in Txns : update_points_write(t)
    \/ \E t \in Txns : update_points_commit(t)
    \/ initialize_db
    \/ \E k \in OpKeys, name \in Names : add_member(k[1], k[2], name)
    \/ \E k \in OpKeys : remove_member(k[1], k[2])
    \/ \E k \in OpKeys, n \in 0..1 : update_user_profile(k[1], k[2], n)

Spec == Init /\ [][Next]_vars

\* ------------------------------------------------------------- SpecBatch
\* A batch of update_points calls made at the same time on one existing
\* entry: every call has passed line 195 and executed BEGIN (the calls'
\* transactions started in the order of their numbers); from there their
\* statements interleave in every way.
BatchKey == <<1, 1>>

BegunTx(t, points_change, username) ==
    [IdleTx EXCEPT !.pc = IF ensure_user(username) THEN "ensure" ELSE "read",
                   !.key = BatchKey, !.change = points_change,
                   !.username = username, !.start = 1 + t]

InitBatch ==
    /\ pool = TRUE
    /\ profiles = {}
    /\ now = 2 + Cardinality(Txns)
    /\ ret = Pending
    /\ NoViews
    /\ NoRewards
    /\ NoNotes
    /\ \E p0 \in 0..MaxPoints, calls \in [Txns -> [change : Deltas,
                                                   username : UpNames]] :
          /\ led = (BatchKey :> [NewRow("ann", 1) EXCEPT !.points = p0])
          /\ tx = [t \in Txns |->
                      BegunTx(t, calls[t].change, calls[t].username)]
          /\ batch = [on |-> TRUE, base |-> p0, calls |-> calls]

NextBatch ==
    \/ \E t \in Txns : update_points_ensure(t)
    \/ \E t \in Txns : update_points_read(t)
    \/ \E t \in Txns : update_points_write(t)
    \/ \E t \in Txns : update_points_commit(t)

SpecBatch == InitBatch /\ [][NextBatch]_vars

\* ---------------------------------------------------------------------- C1
\* The results of applying the changes of the calls in S one after another,
\* in every order, to p, clamping to 0 after each.
RECURSIVE SequentialResults(_, _)
SequentialResults(p, S) ==
    IF S = {} THEN {p}
    ELSE UNION {SequentialResults(
                    IF p + batch.calls[t].change < 0 THEN 0
                    ELSE p + batch.calls[t].change, S \ {t}) : t \in S}

BatchDone == batch.on /\ \A t \in Txns : tx[t].pc = "idle"

\* C1: when all the concurrent update_points calls on one key have returned,
\* the stored points equal the result of applying all their changes one
\* after another in some order, clamping to 0 after each; no change is lost.
C1_NoLostUpdate ==
    BatchDone => led[BatchKey].points \in SequentialResults(batch.base, Txns)

\* What the code does guarantee: calls that all supply a username serialise
\* on the row lock their INSERT ... ON CONFLICT takes.
SerialisedWhenNamed ==
    (BatchDone /\ \A t \in Txns : batch.calls[t].username # NoName)
        => led[BatchKey].points \in SequentialResults(batch.base, Txns)

\* ---------------------------------------------------------------- queries
Max(a, b) == IF a >= b THEN a ELSE b
Min(a, b) == IF a <= b THEN a ELSE b

\* ORDER BY points DESC, last_updated ASC: row a sorts before row b.
SortsBefore(l, a, b) ==
    \/ l[a].points > l[b].points
    \/ l[a].points = l[b].points /\ l[a].last_updated < l[b].last_updated

\* ROW_NUMBER() OVER (ORDER BY points DESC, last_updated ASC) of row k among
\* the rows S the WHERE clause keeps.
RowNumber(l, S, k) == 1 + Cardinality({j \in S : SortsBefore(l, j, k)})

\* The rows S in the order of the ORDER BY clause, each with its ROW_NUMBER.
Ranked(l, S) ==
    [i \in 1..Cardinality(S) |->
        LET k == CHOOSE j \in S : RowNumber(l, S, j) = i IN
        [rank |-> RowNumber(l, S, k), user_id |-> UserOf(k),
         username |-> l[k].username, points |-> l[k].points,
         last_updated |-> l[k].last_updated]]

\* LIMIT per_page OFFSET offset, applied after the window function.
LimitOffset(rows, per_page, offset) ==
    SubSeq(rows, offset + 1, Min(offset + per_page, Len(rows)))

\* Lines 283-290, numbering the rows after LIMIT/OFFSET instead of before.
PageQueryNumberedPerPage(l, g, per_page, offset) ==
    LET S == {k \in DOMAIN l : GuildOf(k) = g /\ l[k].points >= 0}
        page == LimitOffset(Ranked(l, S), per_page, offset) IN
    [i \in 1..Len(page) |-> [page[i] EXCEPT !.rank = i]]

\* Lines 283-290: the page query.
PageQuery(l, g, per_page, offset) ==
    LET S == {k \in DOMAIN l : GuildOf(k) = g /\ l[k].points >= 0} IN
    LimitOffset(Ranked(l, S), per_page, offset)

\* Lines 268-271: SELECT COUNT(*) ... WHERE guild_id = $1 AND points >= 0.
CountQuery(l, g) ==
    Cardinality({k \in DOMAIN l : GuildOf(k) = g /\ l[k].points >= 0})

\* _get_leaderboard_async (lines 259-308): (leaderboard, page, total_pages).
LeaderboardResult(l, up, g, page, per_page) ==
    IF ~up \/ CountQuery(l, g) = 0
    THEN [rows |-> <<>>, page |-> 0, total_pages |-> 0]
    ELSE LET total_pages ==
                 Max(1, (CountQuery(l, g) + per_page - 1) \div per_page)
             clamped == Max(1, Min(page, total_pages))
             offset == (clamped - 1) * per_page IN
         [rows |-> PageQuery(l, g, per_page, offset), page |-> clamped,
          total_pages |-> total_pages]

get_leaderboard_async(g, page, per_page) ==
    /\ ret' = [op |-> "_get_leaderboard_async", guild |-> g, page |-> page,
               per_page |-> per_page,
               result |-> LeaderboardResult(led, pool, g, page, per_page)]
    /\ UNCHANGED <<viewVars, rewardVars, batch, noteVars, pool, led, profiles, now, tx>>

\* get_user_stats (lines 310-340): the window function runs over the rows
\* the WHERE clause keeps, guild_id = $1 AND user_id = $2.
StatsResult(l, up, g, u) ==
    LET S == {k \in DOMAIN l : GuildOf(k) = g /\ UserOf(k) = u} IN
    IF ~up \/ S = {}
    THEN [found |-> FALSE]
    ELSE LET k == CHOOSE j \in S : TRUE IN
         [found |-> TRUE, username |-> l[k].username, points |-> l[k].points,
          rank |-> RowNumber(l, S, k), last_updated |-> l[k].last_updated,
          created_at |-> l[k].created_at]

get_user_stats(g, u) ==
    /\ ret' = [op |-> "get_user_stats", key |-> <<g, u>>,
               result |-> StatsResult(led, pool, g, u)]
    /\ UNCHANGED <<viewVars, rewardVars, batch, noteVars, pool, led, profiles, now, tx>>

\* ------------------------------------------------------------- SpecQuery
\* The queries on every ledger of at most four entries: the members were
\* added in the order of their keys (created_at) and each entry was last
\* written at a moment of its own after that (last_updated).
QueryPoints == {0, 1, 2}
KeyIndex(k) == Cardinality({j \in Keys : j[1] < k[1] \/ (j[1] = k[1] /\ j[2] <= k[2])})

InitQuery ==
    /\ profiles = {}
    /\ now = 2 * Cardinality(Keys) + 1
    /\ tx = [t \in Txns |-> IdleTx]
    /\ ret = Pending
    /\ batch = NoBatch
    /\ NoViews
    /\ NoRewards
    /\ NoNotes
    /\ pool \in BOOLEAN
    /\ \E S \in SUBSET Keys :
          \E pts \in [S -> QueryPoints], ord \in [S -> 1..Cardinality(S)] :
             /\ pool \/ S = {}
             /\ \A j, k \in S : j # k => ord[j] # ord[k]
             /\ led = [k \in S |->
                          [username |-> "ann", points |-> pts[k],
                           last_updated |-> Cardinality(Keys) + ord[k],
                           created_at |-> KeyIndex(k)]]

NextQuery ==
    \/ \E g \in Guilds, page \in Pages, per_page \in PerPages :
          get_leaderboard_async(g, page, per_page)
    \/ \E g \in Guilds, u \in Users : get_user_stats(g, u)

SpecQuery == InitQuery /\ [][NextQuery]_vars

\* The members of guild g and the 1-based position of member k in the guild's
\* ordering by (points descending, last_updated ascending).
GuildMembers(g) == {k \in DOMAIN led : GuildOf(k) = g}
Position(k) ==
    1 + Cardinality({j \in GuildMembers(GuildOf(k)) :
            \/ led[j].points > led[k].points
            \/ led[j].points = led[k].points
                 /\ led[j].last_updated < led[k].last_updated})
CeilDiv(a, b) == (a + b - 1) \div b

\* ---------------------------------------------------------------------- C8
\* C8: the rank values _get_leaderboard_async returns are positions in the
\* single full guild ordering by (points descending, last_updated
\* ascending): the i-th row of the returned page p has rank
\* (p - 1) * per_page + i and is the member at that position, and the pages
\* 1..total_pages together list every member of the guild exactly once.
C8_GlobalRanks ==
    ret.op = "_get_leaderboard_async" =>
        LET r == ret.result
            g == ret.guild
            pp == ret.per_page IN
        /\ \A i \in 1..Len(r.rows) :
              /\ r.rows[i].rank = (r.page - 1) * pp + i
              /\ <<g, r.rows[i].user_id>> \in GuildMembers(g)
              /\ Position(<<g, r.rows[i].user_id>>) = r.rows[i].rank
        /\ \A k \in GuildMembers(g) :
              Cardinality({<<p, i>> \in (1..r.total_pages) \X (1..pp) :
                  LET q == LeaderboardResult(led, pool, g, p, pp) IN
                  /\ i <= Len(q.rows)
                  /\ q.rows[i].user_id = UserOf(k)}) = 1

\* The second page of a guild of three members, two per page, was fetched:
\* its only row has rank 3.
C8_Witness ==
    /\ ret.op = "_get_leaderboard_async"
    /\ ret.per_page = 2
    /\ ret.result.page = 2
    /\ Len(ret.result.rows) = 1
    /\ ret.result.rows[1].rank = 3

\* ---------------------------------------------------------------------- C9
\* C9: with the store up, for every guild and requested page,
\* _get_leaderboard_async returns total_pages = max(1, ceil(count /
\* per_page)) and a page clamped into [1, total_pages]; for a guild with no
\* entries it returns ([], 1, 1).
C9_PageBounds ==
    (ret.op = "_get_leaderboard_async" /\ pool) =>
        LET r == ret.result
            count == Cardinality(GuildMembers(ret.guild))
            total == Max(1, CeilDiv(count, ret.per_page)) IN
        /\ r.total_pages = total
        /\ r.page = Max(1, Min(ret.page, total))
        /\ count = 0 => r.rows = <<>> /\ r.page = 1 /\ r.total_pages = 1

\* --------------------------------------------------------------------- C10
\* C10: for every member present in the ledger, the rank get_user_stats
\* returns is the member's 1-based position in the guild-wide ordering by
\* (points descending, last_updated ascending).
C10_StatsRankIsPosition ==
    (ret.op = "get_user_stats" /\ ret.result.found) =>
        ret.result.rank = Position(ret.key)

\* ------------------------------------------------------------ well-formedness
Rows == [username : Names \cup {NoName}, points : Int,
         last_updated : 0..MaxClock, created_at : 0..MaxClock]

TypeOK ==
    /\ pool \in BOOLEAN
    /\ DOMAIN led \subseteq Keys
    /\ \A k \in DOMAIN led : led[k] \in Rows
    /\ profiles \subseteq Keys
    /\ now \in 1..MaxClock
    /\ \A t \in Txns : tx[t].pc \in {"idle", "ensure", "read", "write", "commit"}

\* No two committed rows carry the same last_updated: every statement and
\* every transaction draws its own reading of the clock.
UniqueStamps ==
    \A j, k \in DOMAIN led :
        j # k => led[j].last_updated # led[k].last_updated

\* ---------------------------------------------------------------------- C2
\* C2: in every reachable state, whatever the interleaving of add_member,
\* remove_member and update_points (as called by commands and reward ticks),
\* every ledger entry's points value is an integer >= 0; so is every
\* uncommitted row version a transaction holds.
C2_PointsNeverNegative ==
    /\ \A k \in DOMAIN led : led[k].points \in Nat
    /\ \A t \in Txns : tx[t].dirty # "none" => tx[t].buf.points \in Nat

\* A negative change larger than the stored points has been applied and the
\* entry stands at 0.
C2_Witness ==
    /\ ret.op = "update_points"
    /\ ret.value = "True"
    /\ ret.cur > 0
    /\ ret.cur + ret.change < 0
    /\ ret.key \in DOMAIN led
    /\ led[ret.key].points = 0

\* ---------------------------------------------------------------------- C3
\* C3: update_points on an existing entry whose SELECT read c, with change d,
\* stores c + d when c + d >= 0 and exactly 0 when c + d < 0, and returns
\* True in both cases: the UPDATE of a row that is still there is never
\* refused, and the commit publishes the value and returns True.
C3_ClampLaw ==
    [][\A t \in Txns :
        LET c == tx[t].cur
            d == tx[t].change
            want == IF c + d >= 0 THEN c + d ELSE 0 IN
        /\ (tx[t].pc = "write" /\ tx'[t].pc # "write" /\ Visible(t))
              => /\ tx'[t].pc = "commit"
                 /\ tx'[t].buf.points = want
        /\ (tx[t].pc = "commit" /\ tx'[t].pc # "commit")
              => /\ tx[t].key \in DOMAIN led'
                 /\ led'[tx[t].key].points = want
                 /\ ret' = Returned(tx[t].key, d, tx[t].username, c, "True")
      ]_vars

\* A call with a change below minus the stored points returned True and left 0.
C3_Witness ==
    /\ ret.op = "update_points"
    /\ ret.value = "True"
    /\ ret.cur = 1
    /\ ret.change = -2
    /\ led[ret.key].points = 0

\* ---------------------------------------------------------------------- C4
\* C4: update_points called with no username whose SELECT finds no entry for
\* the key returns False and leaves the ledger unchanged; no call without a
\* username ever creates an entry.
C4_NoUsernameNoEntry ==
    [][/\ \A t \in Txns :
            (/\ tx[t].pc = "read"
             /\ tx[t].username = NoName
             /\ tx[t].key \notin DOMAIN led
             /\ tx'[t].pc # "read")
               => /\ ret' = Returned(tx[t].key, tx[t].change, NoName, NoneVal,
                                     "False")
                  /\ led' = led
                  /\ tx'[t].pc = "idle"
       /\ (ret'.op = "update_points" /\ ret'.username = NoName)
               => DOMAIN led' = DOMAIN led
      ]_vars

\* Such a call has returned False with the store up and the key absent.
C4_Witness ==
    /\ pool
    /\ ret.op = "update_points"
    /\ ret.username = NoName
    /\ ret.cur = NoneVal
    /\ ret.value = "False"
    /\ ret.key \notin DOMAIN led

\* ---------------------------------------------------------------------- C5
\* C5: add_member sets points to 0 only when it inserts the entry; on a key
\* that already has an entry it leaves points (and created_at, and every
\* other entry) unchanged and changes only username and last_updated.
C5_AddMemberKeepsPoints ==
    [][ret'.op = "add_member" =>
        LET k == ret'.key IN
        /\ \A j \in DOMAIN led :
              /\ j \in DOMAIN led'
              /\ led'[j].points = led[j].points
              /\ led'[j].created_at = led[j].created_at
              /\ j # k => led'[j] = led[j]
        /\ \A j \in DOMAIN led' \ DOMAIN led : j = k /\ led'[j].points = 0
      ]_vars

\* add_member has run on an entry that already held points.
C5_Witness ==
    /\ ret.op = "add_member"
    /\ ret.existed
    /\ led[ret.key].points > 0

\* ---------------------------------------------------------------------- C6
\* C6 (as claimed): remove_member returns true exactly when an entry existed
\* and was deleted, and false when no entry was present.
C6_ReturnsWhetherRemoved ==
    (ret.op = "remove_member" /\ pool) =>
        /\ ret.tag = "DELETE 1" => ret.value = "True"
        /\ ret.tag = "DELETE 0" => ret.value = "False"

\* C6 (amended): remove_member returns None in every case; whether a row
\* was removed is only logged: info exactly when the call deleted the entry,
\* a warning exactly when the store is up and no entry was present.
C6_RemoveReturnsNone ==
    [][ret'.op = "remove_member" =>
        LET k == ret'.key IN
        /\ ret'.value = "None"
        /\ ret'.log = "info" <=> (k \in DOMAIN led /\ k \notin DOMAIN led')
        /\ ret'.log = "warning" <=> (pool /\ k \notin DOMAIN led)
      ]_vars

\* remove_member has deleted an entry and returned None.
C6_Witness ==
    /\ ret.op = "remove_member"
    /\ ret.tag = "DELETE 1"
    /\ ret.value = "None"
    /\ ret.key \notin DOMAIN led

\* ---------------------------------------------------------------------- C7
\* C7: once remove_member has been processed for a key with the store up, no
\* ledger entry exists for that key, whether or not the member has a
\* user_profiles row.
C7_RemovedMeansAbsent ==
    (ret.op = "remove_member" /\ pool) => ret.key \notin DOMAIN led

\* =========================================================================
\* Leaderboard views (src/bot/commands.py) and the handlers that broadcast.
\* =========================================================================

\* update_points (leaderboard.py lines 193-253) run from its call to its
\* return with no other statement in between, called when the clock reads t:
\* whether it returned True, the ledger it leaves and the clock afterwards.
update_points_call(l, up, k, points_change, username, t) ==
    LET has == k \in DOMAIN l
        ensured == ensure_user(username)
        row0 == IF ~ensured THEN l[k]
                ELSE IF has
                     THEN [l[k] EXCEPT !.username = username,
                                       !.last_updated = t]
                     ELSE NewRow(username, t + 1)
        t1 == IF ensured /\ ~has THEN t + 2 ELSE t + 1
        upd == update_statement(row0.points, points_change) IN
    IF ~up THEN [ok |-> FALSE, led |-> l, now |-> t]
    ELSE IF ~(has \/ ensured) THEN [ok |-> FALSE, led |-> l, now |-> t1]
    ELSE IF ~upd.ok THEN [ok |-> FALSE, led |-> l, now |-> t1]
    ELSE [ok |-> TRUE,
          led |-> [j \in DOMAIN l \cup {k} |->
                     IF j = k THEN [row0 EXCEPT !.points = upd.points,
                                                !.last_updated = t]
                     ELSE l[j]],
          now |-> t1]

\* member.display_name / user.display_name of user u.
display_name(u) == IF u = 2 THEN "Bob" ELSE "ann"

\* per_page of a view (commands.py line 19: per_page=50), scaled down so that
\* a guild of two members has two pages.
ViewPerPage == 1
\* The page argument of the leaderboard command.
ViewPages == {2}

RECURSIVE SumPoints(_, _)
SumPoints(l, S) ==
    IF S = {} THEN 0
    ELSE LET k == CHOOSE j \in S : TRUE IN l[k].points + SumPoints(l, S \ {k})

\* get_total_guild_points (utils.py lines 180-194):
\* SELECT COALESCE(SUM(points), 0) FROM leaderboard WHERE guild_id = $1.
get_total_guild_points(l, up, g) ==
    IF ~up THEN 0 ELSE SumPoints(l, {k \in DOMAIN l : GuildOf(k) = g})

\* fetch_leaderboard_data (commands.py lines 35-54): the view after it.
fetch_nothing(view, l, up) == view

fetch_leaderboard_data(view, l, up) ==
    LET r == LeaderboardResult(l, up, view.guild_id, view.current_page,
                               ViewPerPage) IN
    [view EXCEPT !.leaderboard_data = r.rows, !.current_page = r.page,
                 !.total_pages = r.total_pages,
                 !.total_guild_points =
                     get_total_guild_points(l, up, view.guild_id)]

\* active_leaderboard_views.remove(view), guarded by "if self in ...".
ListRemove(list, v) == SelectSeq(list, LAMBDA x : x # v)
InList(list, v) == \E n \in DOMAIN list : list[n] = v

\* ---------------------------------------------------- leaderboard command
\* Lines 253-302 up to the first await of the fetch: LeaderboardView(...)
\* registers the new view, then current_page = max(1, page).
leaderboard(v, g, page) ==
    /\ views[v].pc = "none"
    /\ \A w \in ViewIds : w < v => views[w].pc # "none"
    /\ views' = [views EXCEPT ![v] = [NoView EXCEPT !.pc = "fetch",
                    !.guild_id = g, !.current_page = Max(1, page)]]
    /\ registry' = Append(registry, v)
    /\ ret' = Pending
    /\ UNCHANGED <<bc, rewardVars, batch, noteVars, pool, led, profiles, now, tx>>

\* Line 265: the fetch returns (it returns True: _get_leaderboard_async and
\* get_total_guild_points catch their own exceptions).
leaderboard_fetched(v) ==
    /\ views[v].pc = "fetch"
    /\ views' = [views EXCEPT ![v] =
                    [fetch_leaderboard_data(views[v], led, pool)
                        EXCEPT !.pc = "send"]]
    /\ ret' = Pending
    /\ UNCHANGED <<registry, bc, rewardVars, batch, noteVars, pool, led, profiles, now,
                   tx>>

\* Lines 289-290: followup.send returns the message, kept in view.message;
\* when it raises, the handler's except clause reports the error and the
\* view stays registered without a message.
leaderboard_sent(v, ok) ==
    /\ views[v].pc = "send"
    /\ views' = [views EXCEPT ![v].pc = "shown",
                              ![v].message = IF ok THEN "live" ELSE "none"]
    /\ ret' = [op |-> "leaderboard", view |-> v,
               value |-> IF ok THEN "shown" ELSE "error"]
    /\ UNCHANGED <<registry, bc, rewardVars, batch, noteVars, pool, led, profiles, now,
                   tx>>

\* Somebody deletes the message of a view.
delete_message(v) ==
    /\ views[v].message = "live"
    /\ views' = [views EXCEPT ![v].message = "gone"]
    /\ ret' = Pending
    /\ UNCHANGED <<registry, bc, rewardVars, batch, noteVars, pool, led, profiles, now,
                   tx>>

\* ------------------------------------------- handlers that change points
\* The readings of the clock at which a points handler is called.
HandlerTimes == {1, 2}

\* The first free broadcast slot takes the handler.
FreeSlot(b) ==
    /\ bc[b].pc = "idle"
    /\ \A c \in BcIds : c < b => bc[c].pc # "idle"

\* A handler updates the points of entry k and, when update_points returned
\* True, goes on to reply and then to broadcast with the loop of the kind.
PointsHandler(b, k, points_change, kind, name) ==
    LET r == update_points_call(led, pool, k, points_change,
                                display_name(UserOf(k)), now) IN
    /\ FreeSlot(b)
    /\ now \in HandlerTimes
    /\ r.ok => r.led[k].points <= MaxPoints
    /\ led' = r.led
    /\ now' = r.now
    /\ bc' = IF r.ok
             THEN [bc EXCEPT ![b] = [IdleBc EXCEPT !.pc = "send",
                      !.kind = kind, !.guild = GuildOf(k), !.after = r.led]]
             ELSE bc
    /\ ret' = [op |-> name, key |-> k, change |-> points_change,
               value |-> IF r.ok THEN "True" ELSE "False"]
    /\ UNCHANGED <<views, registry, rewardVars, batch, noteVars, pool, profiles, tx>>

\* /addpoints (commands.py lines 304-396): update_points, the reply, then
\* update_active_leaderboards.
add_points(b, k, points) == PointsHandler(b, k, points, "update", "add_points")

\* /removepoints (role_commands.py lines 380-470): update_points with
\* -points, the reply, then trigger_leaderboard_updates.
remove_points(b, k, points) ==
    PointsHandler(b, k, 0 - points, "trigger", "remove_points")

\* interaction.response.send_message(embed): when it returns the handler
\* calls the broadcast, which copies the list of views (lines 221 and 35);
\* when it raises, the handler's except clause ends the handler.
send_reply(b, ok) ==
    /\ bc[b].pc = "send"
    /\ bc' = [bc EXCEPT ![b] =
                IF ok THEN [bc[b] EXCEPT !.pc = "view",
                                         !.snapshot = registry, !.i = 1]
                ELSE IdleBc]
    /\ ret' = [op |-> "send_message", guild |-> bc[b].guild,
               value |-> IF ok THEN "sent" ELSE "raised"]
    /\ UNCHANGED <<views, registry, rewardVars, batch, noteVars, pool, led, profiles,
                   now, tx>>

\* ------------------------------------------------------------ broadcast
\* The loop's test of a view: update_active_leaderboards (line 222) asks for
\* the guild and is_active, trigger_leaderboard_updates (role_rewards.py line
\* 36) for the guild only.
LoopTakesAnyGuild(kind, g, view) == kind = "update" => view.is_active

LoopTakes(kind, g, view) ==
    /\ view.guild_id = g
    /\ kind = "update" => view.is_active

\* The index the loop goes to after the view at index i of n: each view's
\* update is wrapped in its own try, and auto_update_leaderboard catches
\* what its fetch and its edit raise, so a failure goes on to the next view.
next_index_abort(i, n, failure) == IF failure THEN n + 1 ELSE i + 1

next_index(i, n, failure) == i + 1

\* cleanup_view (lines 197-213): the registry without the view.
cleanup_view_keep(list, v) == list

cleanup_view(list, v) == ListRemove(list, v)

\* What message.edit does on a message in state m: a live message is edited
\* or the request fails (HTTPException other than 404); a deleted message
\* gives NotFound (HTTP 404).
EditOutcomes(m) ==
    IF m = "live" THEN {"ok", "HTTPException"}
    ELSE IF m = "gone" THEN {"NotFound", "HTTP404"}
    ELSE {"no message"}

\* The list a loop iterates: the copy it made when it started
\* (active_leaderboard_views.copy(), commands.py line 221 and
\* role_rewards.py line 35), not the list itself.
loop_views_live(r) == registry

loop_views(r) == r.snapshot

\* One turn of the loop: past its end the loop of trigger_leaderboard_updates
\* calls update_active_leaderboards (line 53), which copies the list anew,
\* and update_active_leaderboards returns; at a view the loop takes,
\* auto_update_leaderboard is called and fetches (line 89); other views are
\* passed over.
broadcast_view(b) ==
    LET r == bc[b]
        n == Len(loop_views(r)) IN
    /\ r.pc = "view"
    /\ IF r.i > n
       THEN /\ IF r.kind = "trigger"
               THEN /\ bc' = [bc EXCEPT ![b] = [r EXCEPT !.kind = "update",
                                 !.snapshot = registry, !.i = 1,
                                 !.called = {}, !.failed = {},
                                 !.retired = {}]]
                    /\ ret' = [op |-> "trigger_leaderboard_updates loop",
                               guild |-> r.guild]
               ELSE /\ bc' = [bc EXCEPT ![b] = IdleBc]
                    /\ ret' = [op |-> "update_active_leaderboards",
                               guild |-> r.guild, after |-> r.after,
                               snapshot |-> r.snapshot, called |-> r.called,
                               failed |-> r.failed, retired |-> r.retired]
            /\ UNCHANGED views
       ELSE LET v == loop_views(r)[r.i] IN
            IF LoopTakes(r.kind, r.guild, views[v])
            THEN /\ views' = [views EXCEPT ![v] =
                                fetch_leaderboard_data(views[v], led, pool)]
                 /\ bc' = [bc EXCEPT ![b].pc = "edit",
                                     ![b].called = r.called \cup {v}]
                 /\ ret' = [op |-> "fetch_leaderboard_data", view |-> v,
                            was_active |-> views[v].is_active]
            ELSE /\ bc' = [bc EXCEPT ![b].i = r.i + 1]
                 /\ ret' = Pending
                 /\ UNCHANGED views
    /\ UNCHANGED <<registry, rewardVars, batch, noteVars, pool, led, profiles, now, tx>>

\* auto_update_leaderboard after its fetch (lines 92-129): no message, no
\* edit; NotFound and HTTP 404 clear is_active and clean the view up; any
\* other failure is logged.
broadcast_edit(b, outcome) ==
    LET r == bc[b]
        v == loop_views(r)[r.i]
        gone == outcome \in {"NotFound", "HTTP404"}
        failure == outcome \notin {"ok", "no message"} IN
    /\ r.pc = "edit"
    /\ outcome \in EditOutcomes(views[v].message)
    /\ views' = IF gone THEN [views EXCEPT ![v].is_active = FALSE] ELSE views
    /\ registry' = IF gone THEN cleanup_view(registry, v) ELSE registry
    /\ bc' = [bc EXCEPT ![b].pc = "view",
                        ![b].i = next_index(r.i, Len(loop_views(r)), failure),
                        ![b].failed = IF failure THEN r.failed \cup {v}
                                      ELSE r.failed,
                        ![b].retired = IF gone THEN r.retired \cup {v}
                                       ELSE r.retired]
    /\ ret' = [op |-> "message.edit", view |-> v, outcome |-> outcome,
               was_active |-> views[v].is_active]
    /\ UNCHANGED <<rewardVars, batch, noteVars, pool, led, profiles, now, tx>>

\* ------------------------------------------------------------- SpecViews
\* Guild 1 with two entries and guild 2 with one.  Views are opened, their
\* messages deleted, and points handlers run and broadcast, interleaved at
\* their awaits.  SpecViews: two views, one points handler at a time.
\* SpecRace: one view, two points handlers at a time.
InitViews ==
    /\ pool = TRUE
    /\ led = [k \in {<<1, 1>>, <<1, 2>>, <<2, 1>>} |->
                 [NewRow(display_name(UserOf(k)), 0) EXCEPT !.points = 1,
                                                !.last_updated = 0 - UserOf(k)]]
    /\ profiles = {}
    /\ now = 1
    /\ tx = [t \in Txns |-> IdleTx]
    /\ ret = Pending
    /\ batch = NoBatch
    /\ NoViews
    /\ NoRewards
    /\ NoNotes

NextViews ==
    \/ \E v \in ViewIds, g \in Guilds, page \in ViewPages :
          leaderboard(v, g, page)
    \/ \E v \in ViewIds : leaderboard_fetched(v)
    \/ \E v \in ViewIds, ok \in BOOLEAN : leaderboard_sent(v, ok)
    \/ \E v \in ViewIds : delete_message(v)
    \/ \E k \in OpKeys : add_points(1, k, 1)
    \/ \E k \in OpKeys : remove_points(1, k, 1)
    \/ \E ok \in BOOLEAN : send_reply(1, ok)
    \/ broadcast_view(1)
    \/ \E outcome \in {"ok", "HTTPException", "NotFound", "HTTP404",
                       "no message"} : broadcast_edit(1, outcome)

SpecViews == InitViews /\ [][NextViews]_vars

NextRace ==
    \/ \E g \in Guilds, page \in ViewPages : leaderboard(1, g, page)
    \/ leaderboard_fetched(1)
    \/ \E ok \in BOOLEAN : leaderboard_sent(1, ok)
    \/ delete_message(1)
    \/ \E b \in BcIds, k \in OpKeys : add_points(b, k, 1)
    \/ \E b \in BcIds, k \in OpKeys : remove_points(b, k, 1)
    \/ \E b \in BcIds, ok \in BOOLEAN : send_reply(b, ok)
    \/ \E b \in BcIds : broadcast_view(b)
    \/ \E b \in BcIds, outcome \in {"ok", "HTTPException", "NotFound",
                                    "HTTP404", "no message"} :
          broadcast_edit(b, outcome)

SpecRace == InitViews /\ [][NextRace]_vars

\* ------------------------------------------------------------------- C11
\* The rows and the total a view of guild g holds are those of the ledger
\* for the view's page.
HoldsLedger(v) ==
    LET g == views[v].guild_id IN
    /\ views[v].leaderboard_data =
          PageQuery(led, g, ViewPerPage,
                    (views[v].current_page - 1) * ViewPerPage)
    /\ views[v].total_guild_points = SumPoints(led, GuildMembers(g))

\* The view is Active and registered for guild g.
ActiveFor(v, g) ==
    /\ views[v].pc # "none"
    /\ views[v].guild_id = g
    /\ views[v].is_active
    /\ InList(registry, v)

\* The broadcast of a handler has just returned and the ledger is still the
\* one the handler's update left.
BroadcastReturned ==
    /\ ret.op = "update_active_leaderboards"
    /\ led = ret.after

StillActive(v, g) == views[v].guild_id = g /\ views[v].is_active

\* C12: a failure on one view (edit error, message gone) does not abort the
\* broadcast.  While either loop runs, every view of the guild it has passed
\* that is still Active had auto_update_leaderboard called on it, whatever
\* failed before; and when update_active_leaderboards returns, that holds of
\* every view of the list it copied.
C12_FailureDoesNotAbort ==
    /\ \A b \in BcIds :
          bc[b].pc \in {"view", "edit"} =>
              \A n \in DOMAIN bc[b].snapshot :
                  n < bc[b].i /\ StillActive(bc[b].snapshot[n], bc[b].guild)
                      => bc[b].snapshot[n] \in bc[b].called
    /\ ret.op = "update_active_leaderboards" =>
          \A n \in DOMAIN ret.snapshot :
              StillActive(ret.snapshot[n], ret.guild)
                  => ret.snapshot[n] \in ret.called

\* A broadcast returned in which the update of the first view failed and the
\* second view of the guild was refreshed all the same and holds the ledger.
C12_Witness ==
    /\ BroadcastReturned
    /\ Len(ret.snapshot) = 2
    /\ ret.snapshot[1] \in ret.failed
    /\ ret.snapshot[2] \in ret.called \ ret.failed
    /\ ActiveFor(ret.snapshot[2], ret.guild)
    /\ HoldsLedger(ret.snapshot[2])

\* ------------------------------------------------------------------- C13
\* The edit of view v just failed because its message is gone.
EditFoundNoMessage(r) ==
    r.op = "message.edit" /\ r.outcome \in {"NotFound", "HTTP404"}

\* C13: when the edit of a broadcast fails because the message no longer
\* exists (NotFound or HTTP 404), the step that handles the failure leaves
\* the view with is_active false and out of the list of live views, and it
\* is still so when the broadcast returns.
C13_GoneMessageRetires ==
    /\ EditFoundNoMessage(ret) =>
          /\ ~views[ret.view].is_active
          /\ ~InList(registry, ret.view)
    /\ ret.op = "update_active_leaderboards" =>
          \A v \in ret.retired :
              ~views[v].is_active /\ ~InList(registry, v)

\* A broadcast found the message of an Active, registered view gone and has
\* retired the view.
C13_Witness ==
    /\ EditFoundNoMessage(ret)
    /\ ret.was_active
    /\ ~views[ret.view].is_active
    /\ ~InList(registry, ret.view)
    /\ \E b \in BcIds : bc[b].pc = "view"

\* ------------------------------------------------------------------- C14
\* View v is Retired: it exists and its is_active is false.
Retired(v) == views[v].pc # "none" /\ ~views[v].is_active

\* C14: the lifecycle of a view is one-way.  From a state where view v is
\* Retired, no step puts v back into the list of live views, none makes it
\* Active again, and no broadcast, later or running at the same time, calls
\* the fetch of auto_update_leaderboard on it.
C14_RetiredIsFinal ==
    [][\A v \in ViewIds :
          Retired(v) =>
              /\ ~views'[v].is_active
              /\ ~InList(registry', v)
              /\ ~(ret'.op = "fetch_leaderboard_data" /\ ret'.view = v)]_vars

\* =========================================================================
\* Reward scheduler (src/bot/role_rewards.py).
\* =========================================================================
\* The clock counts hours here: the statements of the store take no time.
\* Guild 1 has the members 1, 2 and 3 in the order of guild.members; member 3
\* is a bot.  Member 2 holds the roles 10 and 20, the others role 10.
RewardGuilds == {1}
guild_members(g) == IF g = 1 THEN <<1, 2, 3>> ELSE <<1>>
is_bot(m) == m = 3
member_roles(m) == IF m = 2 THEN {10, 20} ELSE {10}
\* role_rewards_config and interval_hours arguments of setup_role_rewards.
Configs == {(10 :> 1 @@ 20 :> 1), (10 :> 1 @@ 20 :> -1)}
Intervals == {1, 2}
\* self.reward_intervals.get(guild_id, 24)
DefaultIntervalHours == 24

\* dict.get(g, default), d[g] = x and del d[g] on a dict modelled as a
\* function.
Get(d, g, default) == IF g \in DOMAIN d THEN d[g] ELSE default
Put(d, g, x) == [j \in DOMAIN d \cup {g} |-> IF j = g THEN x ELSE d[j]]
del_keep(d, g) == d
Del(d, g) == [j \in DOMAIN d \ {g} |-> d[j]]

\* Lines 130-133: the sum of role_config[role.id] over the member's roles
\* that are in role_config.
member_rewards_first(role_config, roles) ==
    LET S == roles \cap DOMAIN role_config IN
    IF S = {} THEN 0
    ELSE role_config[CHOOSE r \in S : \A q \in S : r <= q]

RECURSIVE member_rewards(_, _)
member_rewards(role_config, roles) ==
    LET S == roles \cap DOMAIN role_config IN
    IF S = {} THEN 0
    ELSE LET r == CHOOSE q \in S : TRUE IN
         role_config[r] + member_rewards(role_config, roles \ {r})

\* Line 137: self.last_reward_time.get(guild_id, {}).get(member.id).
last_reward(g, m) == Get(Get(last_reward_time, g, <<>>), m, NoneVal)

\* Line 140: last_reward is None or now - last_reward >= interval.
interval_elapsed_strict(last, t, interval) ==
    last = NoneVal \/ t - last > interval

interval_elapsed(last, t, interval) ==
    last = NoneVal \/ t - last >= interval

\* Task.cancel(): the task gets CancelledError at the await it is suspended
\* at, the next time it would run; a task that has ended is left alone.
cancel_ignored(task) == task

cancel(task) ==
    IF task.pc = "done" THEN task ELSE [task EXCEPT !.cancelled = TRUE]

\* Lines 100-103 and 179-180: what the loop does after a tick, whatever the
\* tick's outcome: it sleeps again.
loop_after_fragile(outcome) == IF outcome = "raised" THEN "done" ELSE "sleep"

loop_after(outcome) == "sleep"

\* asyncio.create_task takes the first slot that holds no task or a task
\* that has ended.
FreeTask(t) ==
    /\ tasks[t].pc \in {"none", "done"}
    /\ \A u \in TaskIds : u < t => tasks[u].pc \notin {"none", "done"}

\* The task, asleep until the interval has passed (line 98).
Asleep(task, outcome) ==
    [task EXCEPT !.pc = loop_after(outcome),
                 !.wake = now + Get(reward_intervals', task.guild,
                                    DefaultIntervalHours),
                 !.i = 1, !.role_config = <<>>, !.rewards_distributed = 0]

\* setup_role_rewards (lines 75-92).
setup_role_rewards(g, role_rewards_config, interval_hours) ==
    \E t \in TaskIds :
       /\ FreeTask(t)
       /\ role_rewards' = Put(role_rewards, g, role_rewards_config)
       /\ reward_intervals' = Put(reward_intervals, g, interval_hours)
       /\ tasks' = [u \in TaskIds |->
                      IF u = t
                      THEN Asleep([NoTask EXCEPT !.guild = g], "created")
                      ELSE IF g \in DOMAIN active_tasks /\ u = active_tasks[g]
                           THEN cancel(tasks[u])
                           ELSE tasks[u]]
       /\ active_tasks' = Put(active_tasks, g, t)
       /\ ret' = [op |-> "setup_role_rewards", guild |-> g, task |-> t]
       /\ UNCHANGED <<last_reward_time, viewVars, batch, noteVars, pool, led, profiles,
                      now, tx>>

\* stop_role_rewards (lines 182-199).
stop_role_rewards(g) ==
    /\ tasks' = [u \in TaskIds |->
                   IF g \in DOMAIN active_tasks /\ u = active_tasks[g]
                   THEN cancel(tasks[u]) ELSE tasks[u]]
    /\ active_tasks' = Del(active_tasks, g)
    /\ role_rewards' = Del(role_rewards, g)
    /\ reward_intervals' = Del(reward_intervals, g)
    /\ last_reward_time' = Del(last_reward_time, g)
    /\ ret' = [op |-> "stop_role_rewards", guild |-> g]
    /\ UNCHANGED <<viewVars, batch, noteVars, pool, led, profiles, now, tx>>

\* An hour passes.
Advance ==
    /\ now < MaxClock
    /\ now' = now + 1
    /\ UNCHANGED <<ret, viewVars, rewardVars, batch, noteVars, pool, led, profiles, tx>>

\* Lines 105-106: the cancelled task gets CancelledError where it awaits
\* (asyncio.sleep, or an await inside _distribute_role_rewards, whose
\* "except Exception" clauses do not catch it) and ends.
loop_cancelled(t) ==
    /\ tasks[t].pc \in {"sleep", "tick"}
    /\ tasks[t].cancelled
    /\ tasks' = [tasks EXCEPT ![t].pc = "done"]
    /\ ret' = [op |-> "_role_reward_loop", task |-> t,
               guild |-> tasks[t].guild, value |-> "cancelled"]
    /\ UNCHANGED <<role_rewards, reward_intervals, last_reward_time,
                   active_tasks, viewVars, batch, noteVars, pool, led, profiles, now,
                   tx>>

\* Lines 98-123: the sleep is over and _distribute_role_rewards starts; it
\* returns at once when the guild is not found or has no configuration.
loop_wake(t, found) ==
    LET task == tasks[t]
        role_config == Get(role_rewards, task.guild, <<>>) IN
    /\ task.pc = "sleep"
    /\ ~task.cancelled
    /\ now >= task.wake
    /\ UNCHANGED reward_intervals
    /\ IF ~found \/ DOMAIN role_config = {}
       THEN /\ tasks' = [tasks EXCEPT ![t] = Asleep(task, "returned")]
            /\ ret' = [op |-> "_distribute_role_rewards", task |-> t,
                       guild |-> task.guild, value |-> "returned"]
       ELSE /\ tasks' = [tasks EXCEPT ![t].pc = "tick", ![t].i = 1,
                                      ![t].role_config = role_config,
                                      ![t].rewards_distributed = 0]
            /\ ret' = Pending
    /\ UNCHANGED <<role_rewards, last_reward_time, active_tasks, viewVars,
                   batch, noteVars, pool, led, profiles, now, tx>>

\* Lines 150-154: last_reward_time after update_points returned success for
\* member m of guild g at time t; it is written only "if success".
record_reward_always(times, success, g, m, t) ==
    Put(times, g, Put(Get(times, g, <<>>), m, t))

record_reward(times, success, g, m, t) ==
    IF success THEN Put(times, g, Put(Get(times, g, <<>>), m, t)) ELSE times

\* Lines 125-170 for the member at index i of guild.members: a bot is
\* skipped; the sum of the member's configured roles is taken (raised: that
\* raises, as it does on a value that is no number, and line 179 catches it:
\* the tick is over); a positive sum whose interval has passed is handed to
\* update_points, and when that returns True the time is recorded and
\* rewards_distributed counted.
distribute_member(t, raised) ==
    LET task == tasks[t]
        g == task.guild
        m == guild_members(g)[task.i]
        sum == member_rewards(task.role_config, member_roles(m))
        last == last_reward(g, m)
        interval == Get(reward_intervals, g, DefaultIntervalHours)
        due == sum > 0 /\ interval_elapsed(last, now, interval)
        r == update_points_call(led, pool, <<g, m>>, sum, display_name(m),
                                now)
        call == [op |-> "reward", task |-> t, guild |-> g, member |-> m,
                 sum |-> sum, last |-> last, at |-> now,
                 interval |-> interval, store |-> pool, before |-> led] IN
    /\ task.pc = "tick"
    /\ ~task.cancelled
    /\ task.i <= Len(guild_members(g))
    /\ UNCHANGED reward_intervals
    /\ IF is_bot(m)
       THEN /\ ~raised
            /\ tasks' = [tasks EXCEPT ![t].i = task.i + 1]
            /\ ret' = [call EXCEPT !.op = "reward: bot"]
            /\ UNCHANGED <<led, last_reward_time>>
       ELSE IF raised
       THEN /\ tasks' = [tasks EXCEPT ![t] = Asleep(task, "raised")]
            /\ ret' = [call EXCEPT !.op = "reward: raised"]
            /\ UNCHANGED <<led, last_reward_time>>
       ELSE IF ~due
       THEN /\ tasks' = [tasks EXCEPT ![t].i = task.i + 1]
            /\ ret' = [call EXCEPT !.op = "reward: not due"]
            /\ UNCHANGED <<led, last_reward_time>>
       ELSE /\ r.ok => r.led[<<g, m>>].points <= MaxPoints
            /\ led' = r.led
            /\ last_reward_time' =
                  record_reward(last_reward_time, r.ok, g, m, now)
            /\ tasks' = [tasks EXCEPT ![t].i = task.i + 1,
                            ![t].rewards_distributed =
                                IF r.ok THEN task.rewards_distributed + 1
                                ELSE task.rewards_distributed]
            /\ ret' = [call EXCEPT !.op = IF r.ok THEN "reward: granted"
                                          ELSE "reward: failed"]
    /\ UNCHANGED <<role_rewards, active_tasks, viewVars, batch, noteVars, pool,
                   profiles, now, tx>>

\* Lines 172-177: past the last member, trigger_leaderboard_updates when a
\* reward was distributed (no view is open here, so it awaits nothing), and
\* the loop sleeps again.  failed: the broadcast raises; line 59 catches it
\* (and line 179 would), so the tick ends the same way.
distribute_end(t, failed) ==
    LET task == tasks[t] IN
    /\ task.pc = "tick"
    /\ ~task.cancelled
    /\ task.i > Len(guild_members(task.guild))
    /\ failed => task.rewards_distributed > 0
    /\ UNCHANGED reward_intervals
    /\ tasks' = [tasks EXCEPT ![t] =
                    Asleep(task, IF failed THEN "raised" ELSE "returned")]
    /\ ret' = [op |-> IF task.rewards_distributed > 0
                      THEN "trigger_leaderboard_updates"
                      ELSE "_distribute_role_rewards",
               task |-> t, guild |-> task.guild,
               value |-> IF failed THEN "failed" ELSE "returned"]
    /\ UNCHANGED <<role_rewards, last_reward_time, active_tasks, viewVars,
                   batch, noteVars, pool, led, profiles, now, tx>>

\* ----------------------------------------------------------- SpecRewards
InitRewards ==
    /\ pool = FALSE
    /\ led = <<>>
    /\ profiles = {}
    /\ now = 1
    /\ tx = [t \in Txns |-> IdleTx]
    /\ ret = Pending
    /\ batch = NoBatch
    /\ NoViews
    /\ NoRewards
    /\ NoNotes

NextRewards ==
    \/ initialize_db
    \/ \E g \in RewardGuilds, c \in Configs, h \in Intervals :
          setup_role_rewards(g, c, h)
    \/ \E g \in RewardGuilds : stop_role_rewards(g)
    \/ Advance
    \/ \E t \in TaskIds : loop_cancelled(t)
    \/ \E t \in TaskIds, found \in BOOLEAN : loop_wake(t, found)
    \/ \E t \in TaskIds, raised \in BOOLEAN : distribute_member(t, raised)
    \/ \E t \in TaskIds, failed \in BOOLEAN : distribute_end(t, failed)

SpecRewards == InitRewards /\ [][NextRewards]_vars

\* ------------------------------------------------------------------- C15
\* C15: every successful change of the ledger by a point-changing operation is
\* followed by a broadcast, also when the reward loop is reconfigured or
\* stopped while a tick is in progress.  For the reward tick: the tick does
\* not end while rewards it has distributed (rewards_distributed > 0) have
\* had no trigger_leaderboard_updates; a task that has ended holds none.
C15_TickEndsWithBroadcast ==
    \A t \in TaskIds :
        tasks[t].pc = "done" => tasks[t].rewards_distributed = 0

\* ------------------------------------------------------------------- C16
\* The reward loop just handled a member (ret is the record of that).
Handled(r) ==
    r.op \in {"reward: granted", "reward: failed", "reward: not due",
              "reward: bot", "reward: raised"}

\* C16: two consecutive grants to a member are at least the configured
\* interval apart, and a member with a positive sum whom a tick reaches when
\* the interval has passed since the last grant is rewarded: a grant at time
\* at to a member last rewarded at time last has at - last >= interval, and
\* a tick passes such a member over only while at - last < interval.
C16_GrantsAnIntervalApart ==
    /\ ret.op = "reward: granted" /\ ret.last # NoneVal
          => ret.at - ret.last >= ret.interval
    /\ ret.op = "reward: not due" /\ ret.sum > 0
          => ret.last # NoneVal /\ ret.at - ret.last < ret.interval

\* A member rewarded at time t is rewarded again by the tick at t + interval.
C16_Witness ==
    /\ ret.op = "reward: granted"
    /\ ret.last # NoneVal
    /\ ret.at = ret.last + ret.interval
    /\ led[<<ret.guild, ret.member>>].points >= 2

\* ------------------------------------------------------------------- C17
\* The points of entry k in ledger l (0 when there is no entry).
PointsIn(l, k) == IF k \in DOMAIN l THEN l[k].points ELSE 0

\* The points per interval of role r for member m of guild g: the configured
\* value when the guild's configuration names r and m holds r.
RoleShare(g, m, r) ==
    IF g \in DOMAIN role_rewards /\ r \in DOMAIN role_rewards[g]
       /\ r \in member_roles(m)
    THEN role_rewards[g][r] ELSE 0

\* C17: when a tick handles a member, the member's entry gains exactly the
\* sum of the points per interval of the configured roles the member holds,
\* in one update, if the member is no bot, the sum is positive and the
\* interval has passed since the member's last reward (and the store took
\* the update); otherwise, and for every other entry, the ledger is as it
\* was.
C17_OneDeltaOfTheSum ==
    Handled(ret) =>
        LET k == <<ret.guild, ret.member>>
            want == RoleShare(ret.guild, ret.member, 10)
                    + RoleShare(ret.guild, ret.member, 20)
            due == /\ ~is_bot(ret.member)
                   /\ want > 0
                   /\ (ret.last = NoneVal
                       \/ ret.at - ret.last >= ret.interval) IN
        /\ ret.op = "reward: granted" =>
              /\ due
              /\ PointsIn(led, k) = PointsIn(ret.before, k) + want
              /\ \A j \in DOMAIN led \ {k} :
                    j \in DOMAIN ret.before /\ led[j] = ret.before[j]
        /\ ret.op # "reward: granted" => led = ret.before
        /\ due /\ ret.store /\ ret.op # "reward: raised"
              => ret.op = "reward: granted"

\* Member 2, who holds two configured roles of one point each, was granted
\* two points in one update.
C17_Witness ==
    /\ ret.op = "reward: granted"
    /\ ret.member = 2
    /\ RoleShare(ret.guild, 2, 10) = 1
    /\ RoleShare(ret.guild, 2, 20) = 1
    /\ PointsIn(led, <<ret.guild, 2>>) = PointsIn(ret.before, <<ret.guild, 2>>) + 2

\* ------------------------------------------------------------------- C18
\* Guild g has no entry in any of the scheduler's four dicts.
Forgotten(g) ==
    /\ g \notin DOMAIN role_rewards
    /\ g \notin DOMAIN reward_intervals
    /\ g \notin DOMAIN last_reward_time
    /\ g \notin DOMAIN active_tasks

\* The entries of guild g in the ledger.
LedgerOf(g) == [k \in {j \in DOMAIN led : GuildOf(j) = g} |-> led[k]]

\* C18: when stop_role_rewards(g) has returned, g is in none of role_rewards,
\* reward_intervals, last_reward_time and active_tasks; that stays so until
\* setup_role_rewards(g) is called, and until then no step of the reward
\* loop changes an entry of g in the ledger.
C18_StopForgetsAndSilences ==
    /\ [](ret.op = "stop_role_rewards" => Forgotten(ret.guild))
    /\ [](\A g \in RewardGuilds :
             g \notin DOMAIN active_tasks => Forgotten(g))
    /\ [][\A g \in RewardGuilds :
             g \notin DOMAIN active_tasks => LedgerOf(g)' = LedgerOf(g)]_vars

\* stop_role_rewards returned while the guild's task was in a tick that had
\* already rewarded a member; the task has not run since.
C18_Witness ==
    /\ ret.op = "stop_role_rewards"
    /\ Forgotten(ret.guild)
    /\ \E t \in TaskIds :
          /\ tasks[t].guild = ret.guild
          /\ tasks[t].pc = "tick"
          /\ tasks[t].cancelled
          /\ tasks[t].rewards_distributed > 0

\* The reward loop of task t is live: it was started and has neither been
\* cancelled nor ended.
Live(t) == tasks[t].pc \in {"sleep", "tick"} /\ ~tasks[t].cancelled

\* C19: a guild has at most one live reward loop, and it is the one recorded
\* in active_tasks; a member is rewarded only by that loop.
C19_OneLiveLoop ==
    /\ \A t \in TaskIds :
          Live(t) => /\ tasks[t].guild \in DOMAIN active_tasks
                     /\ active_tasks[tasks[t].guild] = t
    /\ \A t, u \in TaskIds :
          (Live(t) /\ Live(u) /\ tasks[t].guild = tasks[u].guild) => t = u
    /\ ret.op = "reward: granted" => Live(ret.task)

\* setup_role_rewards returned for a guild whose earlier loop was in a tick:
\* the earlier task is cancelled and the new one is the guild's live loop.
C19_Witness ==
    /\ ret.op = "setup_role_rewards"
    /\ \E t, u \in TaskIds :
          /\ t # u
          /\ tasks[t].guild = ret.guild /\ tasks[u].guild = ret.guild
          /\ tasks[t].pc = "tick" /\ tasks[t].cancelled
          /\ Live(u) /\ active_tasks[ret.guild] = u

\* The task is asleep and due again within one interval of the clock.
Rescheduled(t) ==
    /\ tasks[t].pc = "sleep"
    /\ tasks[t].wake <= now + Get(reward_intervals, tasks[t].guild,
                                  DefaultIntervalHours)

\* C20: the reward loop ends only when its task is cancelled (by
\* stop_role_rewards or by a reconfiguration).  No failure inside a tick ends
\* it: after a guild that is not found, an exception while a member is
\* processed or a failed broadcast the task sleeps until the next tick, and
\* after a store fault on one member the tick goes on with the next member.
C20_OnlyCancelEndsLoop ==
    /\ \A t \in TaskIds : tasks[t].pc = "done" => tasks[t].cancelled
    /\ \A t \in TaskIds :
          (tasks[t].pc # "none" /\ ~tasks[t].cancelled) => Live(t)
    /\ (/\ ret.op \in {"reward: raised", "_distribute_role_rewards",
                        "trigger_leaderboard_updates"}
        /\ ~tasks[ret.task].cancelled)
          => Rescheduled(ret.task)
    /\ (ret.op = "reward: raised" /\ ~tasks[ret.task].cancelled)
          => tasks[ret.task].wake = ret.at + ret.interval
    /\ (ret.op = "reward: failed" /\ ~tasks[ret.task].cancelled)
          => /\ tasks[ret.task].pc = "tick"
             /\ guild_members(ret.guild)[tasks[ret.task].i - 1] = ret.member

\* An exception was raised while a member was processed, in a tick that had
\* already rewarded a member; the loop has not been cancelled and sleeps
\* until its next tick.
C20_Witness ==
    /\ ret.op = "reward: raised"
    /\ ret.member = 2
    /\ Live(ret.task)
    /\ Rescheduled(ret.task)
    /\ active_tasks[ret.guild] = ret.task
    /\ ret.guild \in DOMAIN last_reward_time
    /\ 1 \in DOMAIN last_reward_time[ret.guild]
    /\ last_reward_time[ret.guild][1] = ret.at

\* ------------------------------------------------------------------- C21
\* The index of member m in guild.members of guild g.
IndexOf(g, m) ==
    CHOOSE j \in 1..Len(guild_members(g)) : guild_members(g)[j] = m

\* Member m of guild g is still owed a reward at time t: no bot, a positive
\* sum of configured role points, and never rewarded or last rewarded at
\* least the interval before t.
StillDue(g, m, t, interval) ==
    /\ ~is_bot(m)
    /\ RoleShare(g, m, 10) + RoleShare(g, m, 20) > 0
    /\ (last_reward(g, m) = NoneVal \/ t - last_reward(g, m) >= interval)

\* C21: a failure while one member is rewarded stays with that member: when
\* the tick in which member m's processing raised is over, no member that
\* comes after m in guild.members is still owed a reward (the store being
\* up), i.e. every eligible later member was rewarded in that tick.
C21_FailureStaysWithMember ==
    (ret.op = "reward: raised" /\ Live(ret.task) /\ ret.store)
        => \A j \in 1..Len(guild_members(ret.guild)) :
              j > IndexOf(ret.guild, ret.member)
                 => ~StillDue(ret.guild, guild_members(ret.guild)[j],
                              ret.at, ret.interval)

\* ========================================================= rank resolver
\* src/bot/utils.py.  The role ids of the source are 19-digit numbers; they
\* are written here by short numbers: 41..46 the six special roles in the
\* order of lines 40-45, 31..33 the Core Disciple roles, 21..23 the Inner
\* Disciple roles and 11..13 the Outer Disciple roles of lines 55-60.
\* Role 99 is a role none of the tables names.
special_roles ==
    (41 :> "Demon God" @@ 42 :> "Heavenly Demon" @@ 43 :> "Guardian"
     @@ 44 :> "Supreme Demon" @@ 45 :> "Demon Council" @@ 46 :> "Young Master")

rank_roles ==
    [Core |-> {31, 32, 33}, Inner |-> {21, 22, 23}, Outer |-> {11, 12, 13}]

\* The member argument: present is FALSE for member=None; roles is
\* member.roles, in the order the member object lists them.
NoMember == [present |-> FALSE, roles |-> <<>>]
Member(roles) == [present |-> TRUE, roles |-> roles]

\* The values of a sequence.
Range(q) == {q[i] : i \in 1..Len(q)}

\* Lines 36-107 return one of these; NoTitle: the loop of lines 49-51 ends
\* without returning.
NoTitle == "no title"

\* Lines 49-51: the title of the first role of member.roles that is a
\* special role.
special_title_none(roles) == NoTitle

special_title(roles) ==
    LET I == {i \in 1..Len(roles) : roles[i] \in DOMAIN special_roles} IN
    IF I = {} THEN NoTitle
    ELSE special_roles[roles[CHOOSE i \in I : \A j \in I : i <= j]]

\* any(role.id in rank_roles[tier] for role in member.roles).
user_has_role(roles, tier) ==
    \E i \in 1..Len(roles) : roles[i] \in rank_roles[tier]

\* Lines 86-93 and 96-103: the rank by points alone.
point_only_core(points) ==
    IF points >= 750 THEN "Core Disciple"
    ELSE IF points >= 350 THEN "Inner Disciple"
    ELSE IF points >= 10 THEN "Outer Disciple"
    ELSE "Servant"

point_only(points) ==
    IF points >= 750 THEN "Inner Disciple"
    ELSE IF points >= 350 THEN "Inner Disciple"
    ELSE IF points >= 10 THEN "Outer Disciple"
    ELSE "Servant"

\* get_rank_title_by_points (lines 36-107).
get_rank_title_by_points(points, member) ==
    IF member.present
    THEN IF special_title(member.roles) # NoTitle
         THEN special_title(member.roles)
         ELSE IF points >= 750 /\ user_has_role(member.roles, "Core")
         THEN "Core Disciple"
         ELSE IF points >= 350 /\ user_has_role(member.roles, "Inner")
         THEN "Inner Disciple"
         ELSE IF points >= 10 /\ user_has_role(member.roles, "Outer")
         THEN "Outer Disciple"
         ELSE IF points < 10
         THEN "Servant"
         ELSE point_only(points)
    ELSE point_only(points)

\* Lines 119-126.
rank_progression ==
    <<<<"Servant", 0>>, <<"Outer Disciple", 10>>, <<"Inner Disciple", 350>>,
      <<"Core Disciple", 750>>>>

special_ranks ==
    <<"Demon God", "Heavenly Demon", "Guardian", "Supreme Demon",
      "Demon Council", "Young Master">>

\* Lines 132-140: the entry after entry i of the progression, as
\* (next_threshold, next_rank_name); None, None after the last.
next_entry_same(i) ==
    <<rank_progression[i][2], rank_progression[i][1]>>

next_entry(i) ==
    IF i + 1 <= Len(rank_progression)
    THEN <<rank_progression[i + 1][2], rank_progression[i + 1][1]>>
    ELSE <<NoneVal, "None">>

\* get_next_rank_info (lines 115-144): (current_rank, next_threshold,
\* next_rank_name).
get_next_rank_info(points, member) ==
    LET current_rank == get_rank_title_by_points(points, member)
        I == {i \in 1..Len(rank_progression) :
                 rank_progression[i][1] = current_rank} IN
    IF current_rank \in Range(special_ranks)
    THEN <<current_rank, NoneVal, "None">>
    ELSE IF I # {}
    THEN <<current_rank>> \o next_entry(CHOOSE i \in I : \A j \in I : i <= j)
    ELSE <<current_rank, NoneVal, "None">>

\* -------------------------------------------------------------- SpecRank
\* The arguments the resolver is called with: points around the three
\* thresholds, and role lists of up to MaxRoles roles without repetition
\* over one role of each tier, two special roles and a role no table names.
RankPoints == {0 - 5, 0, 9, 10, 349, 350, 749, 750, 760}
RankRoleIds == {11, 21, 31, 41, 42, 99}
MaxRoles == 3

RoleLists ==
    {q \in UNION {[1..n -> RankRoleIds] : n \in 0..MaxRoles} :
        \A i, j \in 1..Len(q) : i # j => q[i] # q[j]}

Members == {NoMember} \cup {Member(q) : q \in RoleLists}

rank_title_call(points, member) ==
    /\ ret' = [op |-> "get_rank_title_by_points", points |-> points,
               member |-> member,
               value |-> get_rank_title_by_points(points, member)]
    /\ UNCHANGED <<viewVars, rewardVars, batch, noteVars, pool, led, profiles, now, tx>>

next_rank_call(points, member) ==
    /\ ret' = [op |-> "get_next_rank_info", points |-> points,
               member |-> member,
               value |-> get_next_rank_info(points, member)]
    /\ UNCHANGED <<viewVars, rewardVars, batch, noteVars, pool, led, profiles, now, tx>>

NextRank ==
    \/ \E points \in RankPoints, member \in Members :
          rank_title_call(points, member)
    \/ \E points \in RankPoints, member \in Members :
          next_rank_call(points, member)

\* The resolver reads no state.
InitRank == InitRewards

SpecRank == InitRank /\ [][NextRank]_vars

\* ===================================================== promotion notifier
\* src/bot/events.py and check_and_announce_rank_progression of
\* src/bot/commands.py.  The notifier's member is member 1 of guild 1.
NoteKey == <<1, 1>>

\* The points of the member, on both sides of the first threshold; the
\* roles an update gives or takes (an Outer Disciple role, a special role
\* and one no table names); what channel.send and member.send do.
NotifyPoints == {9, 10}
NotifyRoleIds == {11, 41, 99}
SendOutcomes == {"ok", "HTTPException"}
DmOutcomes == {"ok", "Forbidden"}

\* guild.text_channels when the bot starts: each channel has an id, a name
\* and whether the bot may send there (permissions_for(me).send_messages).
Channel(id, name) == [id |-> id, name |-> name, sendable |-> TRUE]
MaxChannels == 4
SmallGuild == <<Channel(1, "lounge"), Channel(2, "announcements")>>
LargeGuild ==
    <<Channel(1, "announcements"), Channel(2, "general"),
      Channel(3, "general"), Channel(4, "lounge")>>

\* check_rank_promotion lines 84-106: role id -> rank and points_required
\* (the role ids shortened as in special_roles and rank_roles).
promotion_roles ==
    [r \in {11, 12, 13, 21, 22, 23, 31, 32, 33} \cup DOMAIN special_roles |->
        IF r \in rank_roles.Core
        THEN [rank |-> "Core Disciple", points_required |-> 750]
        ELSE IF r \in rank_roles.Inner
        THEN [rank |-> "Inner Disciple", points_required |-> 350]
        ELSE IF r \in rank_roles.Outer
        THEN [rank |-> "Outer Disciple", points_required |-> 10]
        ELSE [rank |-> special_roles[r], points_required |-> 0]]

\* Python values: an int, a str (the sequence of its characters) or None.
PyInt(n) == [type |-> "int", n |-> n]
PyStr(text) == [type |-> "str", text |-> text]
PyNone == [type |-> "None"]

\* The decimal digits, and a character str.isdigit accepts although it is
\* no decimal digit (SUPERSCRIPT TWO, written "^2" here).
DecimalDigits == <<"0", "1", "2", "3", "4", "5", "6", "7", "8", "9">>
OtherDigits == {"^2"}

\* The decimal form of a number n >= 0.
RECURSIVE decimal(_)
decimal(n) ==
    IF n < 10 THEN <<DecimalDigits[n + 1]>>
    ELSE decimal(n \div 10) \o <<DecimalDigits[(n % 10) + 1]>>

\* str(value): the decimal form of an int, with its sign; a str is itself.
str(value) ==
    IF value.type = "int"
    THEN IF value.n < 0 THEN <<"-">> \o decimal(0 - value.n)
         ELSE decimal(value.n)
    ELSE IF value.type = "str" THEN value.text
    ELSE <<"N", "o", "n", "e">>

\* str.isdigit: not empty, and every character is a digit.
isdigit(text) ==
    /\ Len(text) > 0
    /\ \A i \in 1..Len(text) : text[i] \in Range(DecimalDigits) \cup OtherDigits

\* int(text) of a text that isdigit accepts: ValueError unless every
\* character is a decimal digit.
int_raises(text) == \E i \in 1..Len(text) : text[i] \notin Range(DecimalDigits)

RECURSIVE int(_)
int(text) ==
    LET d == CHOOSE n \in 0..9 : DecimalDigits[n + 1] = text[Len(text)] IN
    IF Len(text) = 1 THEN d
    ELSE 10 * int(SubSeq(text, 1, Len(text) - 1)) + d

\* leaderboard.py lines 512-525: set_guild_config stores str(config_value);
\* the table after the statement.
set_guild_config_table(table, g, config_key, config_value) ==
    Put(table, <<g, config_key>>, str(config_value))

\* leaderboard.py lines 527-544: get_guild_config.  A store that is not
\* initialised raises inside the try, and so does int() of a text of
\* digits that are not all decimal: the except clause returns the default.
get_guild_config_result(table, up, g, config_key, default_value) ==
    IF ~up \/ <<g, config_key>> \notin DOMAIN table THEN default_value
    ELSE IF isdigit(table[<<g, config_key>>])
    THEN IF int_raises(table[<<g, config_key>>]) THEN default_value
         ELSE PyInt(int(table[<<g, config_key>>]))
    ELSE PyStr(table[<<g, config_key>>])

\* events.py lines 136-141: the configured channel id; NoneVal when the
\* value is None or no number (guild.get_channel finds no channel then).
get_guild_config_value(table, up, g, config_key) ==
    LET r == get_guild_config_result(table, up, g, config_key, PyNone) IN
    IF r.type = "int" THEN r.n ELSE NoneVal

\* member.roles: the held roles, lowest position first; the positions of
\* the roles follow their numbers.
RECURSIVE sorted_roles(_)
sorted_roles(S) ==
    IF S = {} THEN <<>>
    ELSE LET r == CHOOSE q \in S : \A x \in S : q <= x IN
         <<r>> \o sorted_roles(S \ {r})

\* guild.get_channel(id): the index of the channel in text_channels, 0 for
\* None.
get_channel(channels, id) ==
    LET I == {i \in 1..Len(channels) : channels[i].id = id} IN
    IF I = {} THEN 0 ELSE CHOOSE i \in I : TRUE

\* discord.utils.get(guild.text_channels, name=channel_name): the first
\* channel of that name, 0 for None.
utils_get(channels, channel_name) ==
    LET I == {i \in 1..Len(channels) : channels[i].name = channel_name} IN
    IF I = {} THEN 0 ELSE CHOOSE i \in I : \A j \in I : i <= j

\* events.py line 164.
preferred_names == <<"general", "announcements", "leaderboard", "bot-commands">>

\* send_to_fallback_channel lines 166-178: the index of the channel the
\* message is sent to, 0 when there is none.
fallback_channel(channels) ==
    LET P == {n \in 1..Len(preferred_names) :
                 /\ utils_get(channels, preferred_names[n]) # 0
                 /\ channels[utils_get(channels, preferred_names[n])].sendable}
        A == {i \in 1..Len(channels) : channels[i].sendable} IN
    IF P # {}
    THEN utils_get(channels, preferred_names[CHOOSE n \in P : \A m \in P : n <= m])
    ELSE IF A # {} THEN CHOOSE i \in A : \A j \in A : i <= j
    ELSE 0

\* Lines 156-158: after an exception of the configured channel's send
\* (line 145) the function is over: line 155 is not reached.
dm_after_send_error(via) == via # "configured"

\* send_rank_promotion_congratulations (lines 126-158) with
\* send_to_fallback_channel (160-183) and send_promotion_dm (185-197).
\* send: what channel.send does ("ok" or the exception it raises); dm: what
\* member.send does.  The result names the channel that was chosen
\* (NoneVal: none), how it was chosen, whether the message reached it,
\* what became of the direct message, and whether an exception left the
\* function.
send_rank_promotion_congratulations(rank_name, current_points, role, send, dm) ==
    LET previous_rank ==
            get_rank_title_by_points(Max(0, current_points - 1),
                                     Member(sorted_roles(role_ids')))
        notification_channel_id ==
            get_guild_config_value(guild_config, pool, 1, "notification_channel")
        c == IF notification_channel_id # NoneVal /\ notification_channel_id # 0
             THEN get_channel(text_channels, notification_channel_id) ELSE 0
        configured == c # 0 /\ text_channels[c].sendable
        f == fallback_channel(text_channels)
        target == IF configured THEN c ELSE f
        via == IF configured THEN "configured"
               ELSE IF f = 0 THEN "none" ELSE "fallback"
        sent == target # 0 /\ send = "ok"
        attempted == target = 0 \/ send = "ok" \/ dm_after_send_error(via) IN
    [role |-> role, rank |-> rank_name, previous_rank |-> previous_rank,
     channel |-> IF target = 0 THEN NoneVal ELSE text_channels[target].id,
     via |-> via,
     channel_result |-> IF target = 0 THEN "none"
                        ELSE IF sent THEN "sent" ELSE send,
     dm |-> IF ~attempted THEN "not attempted"
            ELSE IF dm = "ok" THEN "sent" ELSE dm,
     raised |-> FALSE]

\* check_rank_promotion (lines 80-124): one call of
\* send_rank_promotion_congratulations for each added role that the table
\* names and whose points_required the points meet.
requirement_ignored(role, current_points) == role \in DOMAIN promotion_roles

requirement_met(role, current_points) ==
    /\ role \in DOMAIN promotion_roles
    /\ current_points >= promotion_roles[role].points_required

check_rank_promotion(added_roles, current_points, send, dm) ==
    {send_rank_promotion_congratulations(promotion_roles[role].rank,
                                         current_points, role, send, dm) :
        role \in {r \in added_roles : requirement_met(r, current_points)}}

\* on_member_update (lines 43-78): the member's roles become after.  No
\* leaderboard view is open, so update_active_leaderboards (line 75) has no
\* view to refresh.  bot: the member is a bot; a bot has no ledger entry
\* (on_member_join, initialize_guild and the commands all pass bots over).
on_member_update(after, bot, send, dm) ==
    LET before == role_ids
        added_roles == after \ before
        removed_roles == before \ after
        user_stats == StatsResult(led, pool, 1, 1)
        call == [op |-> "on_member_update", before |-> before, after |-> after,
                 bot |-> bot, points |-> NoneVal,
                 promotions |-> {}, value |-> "None"] IN
    /\ role_ids' = after
    /\ ret' = IF bot \/ (added_roles = {} /\ removed_roles = {})
                 \/ ~user_stats.found
              THEN call
              ELSE [call EXCEPT
                      !.points = user_stats.points,
                      !.promotions = check_rank_promotion(
                          added_roles, user_stats.points, send, dm)]
    /\ UNCHANGED <<viewVars, rewardVars, batch, pool, led, profiles, now, tx,
                   guild_config, text_channels>>

\* set_notification_channel (role_commands.py lines 320-372) for the text
\* channel at index i.
set_notification_channel(i) ==
    /\ i \in 1..Len(text_channels)
    /\ IF ~text_channels[i].sendable
       THEN /\ UNCHANGED guild_config
            /\ ret' = [op |-> "set_notification_channel",
                       channel |-> text_channels[i].id, value |-> "refused"]
       ELSE /\ guild_config' =
                  IF pool
                  THEN set_guild_config_table(guild_config, 1,
                           "notification_channel",
                           PyInt(text_channels[i].id))
                  ELSE guild_config
            /\ ret' = [op |-> "set_notification_channel",
                       channel |-> text_channels[i].id,
                       value |-> IF pool THEN "True" ELSE "False"]
    /\ UNCHANGED <<viewVars, rewardVars, batch, pool, led, profiles, now, tx,
                   text_channels, role_ids>>

\* The guild changes: the bot's permission to send in the channel at index
\* i is granted or withdrawn, or the channel is deleted.
channel_update(i) ==
    /\ i \in 1..Len(text_channels)
    /\ text_channels' = [text_channels EXCEPT ![i].sendable = ~@]
    /\ ret' = Pending
    /\ UNCHANGED <<viewVars, rewardVars, batch, pool, led, profiles, now, tx,
                   guild_config, role_ids>>

channel_delete(i) ==
    /\ i \in 1..Len(text_channels)
    /\ text_channels' = SubSeq(text_channels, 1, i - 1)
                            \o SubSeq(text_channels, i + 1, Len(text_channels))
    /\ ret' = Pending
    /\ UNCHANGED <<viewVars, rewardVars, batch, pool, led, profiles, now, tx,
                   guild_config, role_ids>>

\* commands.py lines 240-248: check_and_announce_rank_progression only
\* writes a debug line; the promotions it dispatches are none.
check_and_announce_rank_progression(old_points, points_now) == {}

\* The part of add_points (commands.py lines 335-378) and of the reward tick
\* (role_rewards.py lines 142-167) from the reading of the old points to the
\* rank-progression check, for the notifier's member.  No view is open, so
\* the broadcast of add_points has nothing to refresh.
points_mutation(source, points_change) ==
    LET before == StatsResult(led, pool, 1, 1)
        old_points == IF before.found THEN before.points ELSE 0
        r == update_points_call(led, pool, NoteKey, points_change,
                                display_name(1), now)
        after == StatsResult(r.led, pool, 1, 1)
        points_now == IF after.found THEN after.points ELSE 0 IN
    /\ r.ok => r.led[NoteKey].points \in NotifyPoints
    /\ led' = r.led
    /\ ret' = [op |-> "check_and_announce_rank_progression",
               source |-> source, success |-> r.ok,
               old_points |-> old_points, new_points |-> points_now,
               promotions |-> IF r.ok
                              THEN check_and_announce_rank_progression(
                                       old_points, points_now)
                              ELSE {}]
    /\ UNCHANGED <<viewVars, rewardVars, batch, noteVars, pool, profiles, now,
                   tx>>

\* ------------------------------------------------------------ SpecNotify
InitNotify ==
    /\ pool = TRUE
    /\ led \in {<<>>} \cup
              {(NoteKey :> [NewRow("ann", 0) EXCEPT !.points = p]) :
                  p \in NotifyPoints}
    /\ profiles = {}
    /\ now = 1
    /\ tx = [t \in Txns |-> IdleTx]
    /\ ret = Pending
    /\ batch = NoBatch
    /\ NoViews
    /\ NoRewards
    /\ guild_config = <<>>
    /\ text_channels = SmallGuild
    /\ role_ids = {}

NextNotify ==
    \/ \E after \in SUBSET NotifyRoleIds, send \in SendOutcomes,
          dm \in DmOutcomes : on_member_update(after, FALSE, send, dm)
    \/ /\ NoteKey \notin DOMAIN led
       /\ \E after \in SUBSET NotifyRoleIds :
             on_member_update(after, TRUE, "ok", "ok")
    \/ \E i \in 1..MaxChannels : set_notification_channel(i)
    \/ \E i \in 1..MaxChannels : channel_update(i)
    \/ \E i \in 1..MaxChannels : channel_delete(i)
    \/ \E source \in {"add_points", "_distribute_role_rewards"} :
          points_mutation(source, 1)

SpecNotify == InitNotify /\ [][NextNotify]_vars

\* ---------------------------------------------------------- SpecChannels
\* The choice of the channel: a guild of four text channels, two of them
\* named general; the member has 10 points and is given or loses the
\* special role.
InitChannels ==
    /\ pool = TRUE
    /\ led = (NoteKey :> [NewRow("ann", 0) EXCEPT !.points = 10])
    /\ profiles = {}
    /\ now = 1
    /\ tx = [t \in Txns |-> IdleTx]
    /\ ret = Pending
    /\ batch = NoBatch
    /\ NoViews
    /\ NoRewards
    /\ guild_config = <<>>
    /\ text_channels = LargeGuild
    /\ role_ids = {}

NextChannels ==
    \/ \E after \in {{}, {41}}, send \in SendOutcomes :
          on_member_update(after, FALSE, send, "ok")
    \/ \E i \in 1..MaxChannels : set_notification_channel(i)
    \/ \E i \in 1..MaxChannels : channel_update(i)
    \/ \E i \in 1..MaxChannels : channel_delete(i)

SpecChannels == InitChannels /\ [][NextChannels]_vars

\* ------------------------------------------------------------------- C22
\* The points went from below a rank threshold of the progression to at or
\* above it.
CrossesThreshold(old_points, points_now) ==
    \E i \in 2..Len(rank_progression) :
        old_points < rank_progression[i][2] /\ points_now >= rank_progression[i][2]

\* C22: when a points mutation (the addpoints command or a reward tick)
\* succeeded and took the member's points across a rank threshold, the
\* rank-progression check that follows it dispatches a promotion
\* notification for the member.
C22_CrossingIsAnnounced ==
    (/\ ret.op = "check_and_announce_rank_progression"
     /\ ret.success
     /\ CrossesThreshold(ret.old_points, ret.new_points))
        => ret.promotions # {}

\* ------------------------------------------------------------------- C23
\* The roles an update added that the rank table names and whose point
\* requirement the points meet.
QualifyingRoles(before, after, points) ==
    {r \in after \ before :
        \E q \in DOMAIN promotion_roles :
           q = r /\ points >= promotion_roles[q].points_required}

\* C23: when the roles of a member who has a ledger entry change, one
\* promotion is dispatched for each added role that the rank table names
\* and whose requirement the member's current points meet, and none for any
\* other role (a removed role, a role the table does not name, a role whose
\* requirement is not met).
C23_OnePromotionPerQualifyingRole ==
    (ret.op = "on_member_update" /\ pool /\ NoteKey \in DOMAIN led)
        => LET Q == QualifyingRoles(ret.before, ret.after, led[NoteKey].points) IN
           /\ Cardinality(ret.promotions) = Cardinality(Q)
           /\ {n.role : n \in ret.promotions} = Q
           /\ \A n \in ret.promotions : n.rank = promotion_roles[n.role].rank

\* A member with 10 points lost the unnamed role and was given an Outer
\* Disciple role and a special role at once: two promotions.
C23_Witness ==
    /\ ret.op = "on_member_update"
    /\ NoteKey \in DOMAIN led
    /\ led[NoteKey].points = 10
    /\ ret.before = {99}
    /\ ret.after = {11, 41}
    /\ Cardinality(ret.promotions) = 2

\* ------------------------------------------------------------------- C24
\* C24: for every promotion the direct message is attempted, whether the
\* channel message was sent, no channel was found or channel.send raised;
\* and no exception leaves the notifier.
C24_DmWhateverTheChannel ==
    ret.op = "on_member_update"
        => \A n \in ret.promotions :
              /\ n.dm # "not attempted"
              /\ ~n.raised

\* ------------------------------------------------------------------- C25
\* The first element of a non-empty set of numbers.
Least(S) == CHOOSE i \in S : \A j \in S : i <= j

\* The id of the channel the chain of C25 names (NoneVal: none): the
\* configured channel if it exists and is sendable; otherwise a sendable
\* channel of the first preferred name that has one; otherwise the first
\* sendable text channel.
ChainChoice ==
    LET key == <<1, "notification_channel">>
        C == {i \in 1..Len(text_channels) :
                 /\ key \in DOMAIN guild_config
                 /\ str(PyInt(text_channels[i].id)) = guild_config[key]
                 /\ text_channels[i].sendable}
        Named(n) == {i \in 1..Len(text_channels) :
                        /\ text_channels[i].name = preferred_names[n]
                        /\ text_channels[i].sendable}
        P == {n \in 1..Len(preferred_names) : Named(n) # {}}
        A == {i \in 1..Len(text_channels) : text_channels[i].sendable} IN
    IF C # {} THEN text_channels[Least(C)].id
    ELSE IF P # {} THEN text_channels[Least(Named(Least(P)))].id
    ELSE IF A # {} THEN text_channels[Least(A)].id
    ELSE NoneVal

\* C25: every promotion goes to the one channel the chain names, and to
\* none, without an error, when no channel is sendable.
C25_ChannelByTheChain ==
    ret.op = "on_member_update"
        => \A n \in ret.promotions :
              /\ n.channel = ChainChoice
              /\ ~n.raised

\* ------------------------------------------------------------------- C26
\* The special roles among the roles of the member argument.
SpecialHeld(member) == Range(member.roles) \cap DOMAIN special_roles

\* C26: when the member holds at least one special role, the rank title is
\* the title of a special role the member holds, whatever the points and
\* the tier roles are.
C26_SpecialRoleOverrides ==
    (ret.op = "get_rank_title_by_points" /\ SpecialHeld(ret.member) # {})
        => \E r \in SpecialHeld(ret.member) : ret.value = special_roles[r]

\* A member with no points who holds a Core Disciple role and two special
\* roles is given the title of one of the special roles.
C26_Witness ==
    /\ ret.op = "get_rank_title_by_points"
    /\ ret.points = 0
    /\ Range(ret.member.roles) = {31, 41, 42}
    /\ ret.value \in {"Demon God", "Heavenly Demon"}

\* ------------------------------------------------------------------- C27
\* The title C27 names for a points value and a set of held roles.
TierTitle(p, R) ==
    IF p >= 750 /\ R \cap rank_roles["Core"] # {} THEN "Core Disciple"
    ELSE IF p >= 350 /\ R \cap rank_roles["Inner"] # {} THEN "Inner Disciple"
    ELSE IF p >= 10 /\ R \cap rank_roles["Outer"] # {} THEN "Outer Disciple"
    ELSE IF p < 10 THEN "Servant"
    ELSE IF p >= 350 THEN "Inner Disciple"
    ELSE "Outer Disciple"

C27_CoreAt760 ==
    /\ ret.op = "get_rank_title_by_points"
    /\ ret.points = 760
    /\ 31 \in Range(ret.member.roles)
    /\ SpecialHeld(ret.member) = {}
    /\ ret.value = "Core Disciple"

\* ------------------------------------------------------------------- C28
\* The threshold and the name of the rank that follows a rank in the
\* progression Servant 0, Outer Disciple 10, Inner Disciple 350, Core
\* Disciple 750; None, None where nothing follows.
Following(rank) ==
    CASE rank = "Servant" -> <<10, "Outer Disciple">>
      [] rank = "Outer Disciple" -> <<350, "Inner Disciple">>
      [] rank = "Inner Disciple" -> <<750, "Core Disciple">>
      [] OTHER -> <<NoneVal, "None">>

\* C28: get_next_rank_info returns the rank title of the same arguments,
\* followed by the threshold and the name of the rank after it in the
\* progression, and by None, None for Core Disciple and the special ranks.
C28_NextRankFollowsCurrent ==
    ret.op = "get_next_rank_info"
        => /\ ret.value[1] = get_rank_title_by_points(ret.points, ret.member)
           /\ <<ret.value[2], ret.value[3]>> = Following(ret.value[1])
           /\ ret.value[1] \in {"Core Disciple"} \cup Range(special_ranks)
                 => (ret.value[2] = NoneVal /\ ret.value[3] = "None")

\* An Outer Disciple is told of Inner Disciple at 350 points.
C28_Witness ==
    /\ ret.op = "get_next_rank_info"
    /\ ret.value = <<"Outer Disciple", 350, "Inner Disciple">>

\* A Core Disciple and a holder of a special role are told of no next rank.
C28_NoNextRank ==
    /\ ret.op = "get_next_rank_info"
    /\ ret.value \in {<<"Core Disciple", NoneVal, "None">>,
                       <<"Guardian", NoneVal, "None">>}

\* ============================================================ store faults
\* src/bot/leaderboard.py: every operation of LeaderboardManager runs its
\* statements inside try ... except Exception, logs the error and returns.
\* What each operation returns from its except clause (get_guild_config
\* returns default_value, which no caller sets: None).
on_fault ==
    [initialize_db |-> "False", add_member |-> "None",
     remove_member |-> "None", update_points |-> "False",
     _get_leaderboard_async |-> "([], 0, 0)", get_user_stats |-> "None",
     get_user_profile |-> "None", update_user_profile |-> "False",
     search_users |-> "[]", get_guild_stats |-> "None",
     cleanup_old_data |-> "None", set_guild_config |-> "False",
     get_guild_config |-> "None"]

\* The operations that run one statement, or several outside a transaction
\* of which at most the last one writes.
Statements == DOMAIN on_fault \ {"initialize_db", "update_points"}

\* What a call that met a fault returns: the operation, the step of
\* update_points the fault came at, and the uncommitted change the
\* transaction held.
Faulted(call, step, dirty, k) ==
    [op |-> "store fault", call |-> call, step |-> step, dirty |-> dirty,
     key |-> k, value |-> on_fault[call]]

\* The statement of a call raises (connection lost, timeout, constraint):
\* the statement has no effect, the except clause returns.
store_fault(call) ==
    /\ call \in Statements
    /\ ret' = Faulted(call, "statement", "none", <<0, 0>>)
    /\ UNCHANGED <<viewVars, rewardVars, batch, noteVars, pool, led, profiles, now, tx>>

\* initialize_db (lines 24-44): create_pool raises and self.pool stays
\* None, or create_tables raises after self.pool was set.
initialize_db_fault(pool_set) ==
    /\ pool = FALSE
    /\ pool' = pool_set
    /\ ret' = Faulted("initialize_db", "statement", "none", <<0, 0>>)
    /\ UNCHANGED <<viewVars, rewardVars, batch, noteVars, led, profiles, now, tx>>

\* conn.transaction() (line 202) on an exception: ROLLBACK; the committed
\* rows are those of before, the transaction's own version is dropped.
autocommitted(l, t) ==
    IF tx[t].dirty = "none" THEN l
    ELSE [j \in DOMAIN l \cup {tx[t].key} |->
             IF j = tx[t].key THEN tx[t].buf ELSE l[j]]

rolled_back(l, t) == l

\* update_points, lines 200-253: the statement transaction t is at (the
\* INSERT, the SELECT, the UPDATE, the logging SELECT or the COMMIT)
\* raises; the transaction is rolled back and line 253 returns False.
update_points_fault(t) ==
    /\ tx[t].pc # "idle"
    /\ led' = rolled_back(led, t)
    /\ tx' = [tx EXCEPT ![t] = Finish(t)]
    /\ ret' = Faulted("update_points", tx[t].pc, tx[t].dirty, tx[t].key)
    /\ UNCHANGED <<viewVars, rewardVars, batch, noteVars, pool, profiles, now>>

\* ------------------------------------------------------------- SpecFault
\* The store operations of Spec, each of which may meet a fault.
NextFault ==
    \/ Next
    \/ \E call \in Statements : store_fault(call)
    \/ \E pool_set \in BOOLEAN : initialize_db_fault(pool_set)
    \/ \E t \in Txns : update_points_fault(t)

SpecFault == Init /\ [][NextFault]_vars

\* ------------------------------------------------------------------- C29
\* What a caller may get from an operation that did not succeed.
SoftFailures == {"False", "None", "[]", "([], 0, 0)"}

\* The calls that returned and report a change of the ledger.
Succeeded(r) ==
    \/ r.op \in {"add_member", "remove_member"}
    \/ r.op = "update_points" /\ r.value = "True"

\* C29: an operation that met a fault returns False, None or an empty
\* result; an operation on a store that is not initialised does so too; and
\* the ledger changes only in the step in which a call succeeds, so that a
\* fault at any step of update_points leaves every entry as it was and
\* creates none.
C29_FaultsStayInside ==
    /\ [](ret.op = "store fault" => ret.value \in SoftFailures)
    /\ []((~pool /\ ret.op \in {"add_member", "remove_member", "update_points",
                                  "update_user_profile"})
             => ret.value \in SoftFailures)
    /\ [][(ret'.op = "store fault" \/ ~pool)
             => (led' = led /\ profiles' = profiles)]_vars
    /\ [][led' # led => Succeeded(ret')]_vars

\* update_points had inserted the member's entry and written its points
\* when the fault came: the ledger has no entry for the member.
C29_Witness ==
    /\ ret.op = "store fault"
    /\ ret.call = "update_points"
    /\ ret.step = "commit"
    /\ ret.dirty = "insert"
    /\ ret.value = "False"
    /\ ret.key \notin DOMAIN led

\* ================================================= point-changing commands
\* /addpoints (src/bot/commands.py), /removepoints and /assignrolepoints
\* (src/bot/role_commands.py) with the tests they make before they call
\* update_points.  The guild is guild 1.
PointLimit == 10000

\* commands.py lines 313-330: the title of the error embed, or "ok".
add_points_check(user, points) ==
    IF is_bot(user) THEN "Invalid Target"
    ELSE IF points < 0 - PointLimit \/ points > PointLimit
    THEN "Invalid Points"
    ELSE "ok"

\* role_commands.py lines 385-411.
remove_points_check(user, points) ==
    IF is_bot(user) THEN "Invalid Target"
    ELSE IF points <= 0 THEN "Invalid Points"
    ELSE IF points > PointLimit THEN "Invalid Points"
    ELSE "ok"

\* interaction.guild.get_role: the roles of the guild are those its members
\* hold.
get_role(role_id) ==
    \E n \in 1..Len(guild_members(1)) :
        role_id \in member_roles(guild_members(1)[n])

\* role_commands.py lines 48-53: the members who are no bots and hold the
\* role, in the order of guild.members.
members_with_role(role_id) ==
    SelectSeq(guild_members(1),
              LAMBDA m : ~is_bot(m) /\ role_id \in member_roles(m))

\* role_commands.py lines 25-69: points is not looked at.
assign_role_points_check(role_id, points) ==
    IF ~get_role(role_id) THEN "Role Not Found"
    ELSE IF members_with_role(role_id) = <<>> THEN "No Members Found"
    ELSE "ok"

\* role_commands.py lines 75-82: update_points for one member after the
\* other; s holds the ledger, the clock and success_count.
RECURSIVE update_each(_, _, _)
update_each(members, points, s) ==
    IF members = <<>> THEN s
    ELSE LET m == Head(members)
             r == update_points_call(s.led, pool, <<1, m>>, points,
                                     display_name(m), s.now) IN
         update_each(Tail(members), points,
                     [led |-> r.led, now |-> r.now,
                      success_count |-> s.success_count
                                          + (IF r.ok THEN 1 ELSE 0)])

\* What a command leaves in ret: its arguments, the verdict of its tests,
\* the ledger it found, how many entries update_points changed and whether
\* the handler goes on to a broadcast.
Commanded(name, target, points, verdict, updated, broadcast) ==
    [op |-> name, target |-> target, points |-> points, verdict |-> verdict,
     before |-> led, updated |-> updated, broadcast |-> broadcast]

\* A command whose tests fail replies with the error embed and returns.
Rejected(name, target, points, verdict) ==
    /\ ret' = Commanded(name, target, points, verdict, 0, FALSE)
    /\ UNCHANGED <<viewVars, rewardVars, batch, noteVars, pool, led, profiles, now, tx>>

\* The handler of /addpoints and of /removepoints past its tests:
\* update_points and, when it returned True, the reply and the broadcast of
\* the kind.
Accepted(b, name, kind, user, points, points_change) ==
    LET r == update_points_call(led, pool, <<1, user>>, points_change,
                                display_name(user), now) IN
    /\ led' = r.led
    /\ now' = r.now
    /\ bc' = IF r.ok
             THEN [bc EXCEPT ![b] = [IdleBc EXCEPT !.pc = "send",
                      !.kind = kind, !.guild = 1, !.after = r.led]]
             ELSE bc
    /\ ret' = Commanded(name, user, points, "ok",
                        IF r.ok THEN 1 ELSE 0, r.ok)
    /\ UNCHANGED <<views, registry, rewardVars, batch, noteVars, pool, profiles, tx>>

\* /addpoints user points (commands.py lines 304-396).
addpoints(b, user, points) ==
    /\ FreeSlot(b)
    /\ now \in HandlerTimes
    /\ IF add_points_check(user, points) # "ok"
       THEN Rejected("addpoints", user, points,
                     add_points_check(user, points))
       ELSE Accepted(b, "addpoints", "update", user, points, points)

\* /removepoints user points (role_commands.py lines 376-470).
removepoints(b, user, points) ==
    /\ FreeSlot(b)
    /\ now \in HandlerTimes
    /\ IF remove_points_check(user, points) # "ok"
       THEN Rejected("removepoints", user, points,
                     remove_points_check(user, points))
       ELSE Accepted(b, "removepoints", "trigger", user, points, 0 - points)

\* /assignrolepoints role_id points (role_commands.py lines 12-150): the
\* updates of lines 75-82, then trigger_leaderboard_updates (line 85),
\* whatever update_points returned.
assignrolepoints(b, role_id, points) ==
    LET s == update_each(members_with_role(role_id), points,
                         [led |-> led, now |-> now, success_count |-> 0]) IN
    /\ FreeSlot(b)
    /\ now \in HandlerTimes
    /\ IF assign_role_points_check(role_id, points) # "ok"
       THEN Rejected("assignrolepoints", role_id, points,
                     assign_role_points_check(role_id, points))
       ELSE /\ led' = s.led
            /\ now' = s.now
            /\ bc' = [bc EXCEPT ![b] = [IdleBc EXCEPT !.pc = "view",
                         !.kind = "trigger", !.guild = 1, !.after = s.led,
                         !.snapshot = registry, !.i = 1]]
            /\ ret' = Commanded("assignrolepoints", role_id, points, "ok",
                                s.success_count, TRUE)
            /\ UNCHANGED <<views, registry, rewardVars, batch, noteVars, pool, profiles, tx>>

\* ---------------------------------------------------------- SpecCommands
\* The amounts on both sides of every limit, the members of guild 1 (member
\* 3 is a bot) and the roles 10 and 20 and a role the guild has not.
Amounts == {0 - 10001, 0 - 10000, 0 - 1, 0, 1, 10000, 10001}
CommandRoles == {10, 20, 77}

NextCommands ==
    \/ \E user \in Users, points \in Amounts : addpoints(1, user, points)
    \/ \E user \in Users, points \in Amounts : removepoints(1, user, points)
    \/ \E role_id \in CommandRoles, points \in Amounts :
          assignrolepoints(1, role_id, points)
    \/ \E ok \in BOOLEAN : send_reply(1, ok)
    \/ broadcast_view(1)

SpecCommands == InitViews /\ [][NextCommands]_vars

\* ------------------------------------------------------------------- C30
\* The amount of a command is out of range: outside [-10000, 10000], or
\* not positive for removepoints.
OutOfRange(r) ==
    \/ r.points < 0 - 10000
    \/ r.points > 10000
    \/ r.op = "removepoints" /\ r.points <= 0

\* The target of addpoints or removepoints is a bot.
BotTarget(r) == r.op \in {"addpoints", "removepoints"} /\ is_bot(r.target)

\* addpoints and removepoints do reject: an amount out of range or a bot
\* as target leaves the ledger as it was and starts no broadcast.
AddRemoveRejectInvalid ==
    (ret.op \in {"addpoints", "removepoints"}
       /\ (OutOfRange(ret) \/ BotTarget(ret)))
        => /\ ret.verdict # "ok"
           /\ led = ret.before
           /\ ~ret.broadcast

\* C30: a point-changing command with an amount out of range or a bot as
\* its target leaves the ledger as it found it and starts no broadcast.
C30_InvalidChangesNothing ==
    (ret.op \in {"addpoints", "removepoints", "assignrolepoints"}
       /\ (OutOfRange(ret) \/ BotTarget(ret)))
        => /\ led = ret.before
           /\ ~ret.broadcast

\* ============================================================ guild config
\* set_guild_config (leaderboard.py lines 512-525).
set_guild_config(g, config_key, config_value) ==
    /\ guild_config' = IF pool
                       THEN set_guild_config_table(guild_config, g,
                                                   config_key, config_value)
                       ELSE guild_config
    /\ ret' = [op |-> "set_guild_config", guild |-> g, key |-> config_key,
               config_value |-> config_value,
               value |-> IF pool THEN "True" ELSE "False"]
    /\ UNCHANGED <<viewVars, rewardVars, batch, text_channels, role_ids, pool, led, profiles, now, tx>>

\* get_guild_config (leaderboard.py lines 527-544).
get_guild_config(g, config_key, default_value) ==
    /\ ret' = [op |-> "get_guild_config", guild |-> g, key |-> config_key,
               default_value |-> default_value,
               value |-> get_guild_config_result(guild_config, pool, g,
                                                 config_key, default_value)]
    /\ UNCHANGED <<viewVars, rewardVars, batch, noteVars, pool, led, profiles, now, tx>>

\* ------------------------------------------------------------ SpecConfig
\* The values set: integers of both signs, texts of decimal digits (one
\* with leading zeros), texts that are no numbers, the empty text and a
\* text of a digit that is no decimal digit.
ConfigValues ==
    {PyInt(0), PyInt(42), PyInt(0 - 5),
     PyStr(<<"4", "2">>), PyStr(<<"0", "0", "7">>), PyStr(<<"a", "b">>),
     PyStr(<<"4", "a">>), PyStr(<<>>), PyStr(<<"^2">>)}
ConfigDefaults == {PyNone, PyInt(1)}
ConfigKey == "notification_channel"

NextConfig ==
    \/ \E g \in Guilds, v \in ConfigValues : set_guild_config(g, ConfigKey, v)
    \/ \E g \in Guilds, d \in ConfigDefaults :
          get_guild_config(g, ConfigKey, d)

SpecConfig == InitViews /\ [][NextConfig]_vars

\* ------------------------------------------------------------------- C31
\* A text is a numeric string: not empty, decimal digits only.
Numeric(text) ==
    /\ Len(text) > 0
    /\ \A i \in 1..Len(text) : text[i] \in Range(DecimalDigits)

\* What C31 says get_guild_config returns after config_value was set: the
\* integer for an integer and for a numeric string, any other string
\* unchanged.
RoundTrip(config_value) ==
    IF config_value.type = "int" THEN config_value
    ELSE IF Numeric(config_value.text) THEN PyInt(int(config_value.text))
    ELSE config_value

\* C31: get_guild_config right after a set_guild_config of the same key
\* (which replaced whatever was set before) returns the value set, as an
\* integer when it is an integer or a numeric string; for a key never set
\* it returns the default.
C31_ConfigRoundTrip ==
    /\ []((ret.op = "get_guild_config"
              /\ <<ret.guild, ret.key>> \notin DOMAIN guild_config)
             => ret.value = ret.default_value)
    /\ [][(ret.op = "set_guild_config" /\ ret.value = "True"
              /\ ret'.op = "get_guild_config"
              /\ ret'.guild = ret.guild /\ ret'.key = ret.key)
             => ret'.value = RoundTrip(ret.config_value)]_vars

\* ============================================================ search_users
\* The characters of the usernames of the model.
chars(username) ==
    CASE username = "ann" -> <<"a", "n", "n">>
      [] username = "Bob" -> <<"B", "o", "b">>
      [] OTHER -> <<>>

\* ILIKE compares without regard to case.
lower(c) ==
    CASE c = "A" -> "a" [] c = "B" -> "b" [] c = "N" -> "n" [] c = "O" -> "o"
      [] OTHER -> c

\* text ILIKE pattern: % stands for any run of characters, _ for any one
\* character, every other character for itself.
RECURSIVE ilike(_, _)
ilike(text, pattern) ==
    IF pattern = <<>> THEN text = <<>>
    ELSE IF Head(pattern) = "%"
    THEN \/ ilike(text, Tail(pattern))
         \/ text # <<>> /\ ilike(Tail(text), pattern)
    ELSE /\ text # <<>>
         /\ Head(pattern) = "_" \/ lower(Head(text)) = lower(Head(pattern))
         /\ ilike(Tail(text), Tail(pattern))

\* LIMIT 50 of line 435, scaled down so that a guild of three members has
\* more matches than the limit.
SearchLimit == 2

\* search_users (lines 421-453): the rows of the query of lines 429-436,
\* with the pattern f'%{query}%'; [] without a pool.
SearchResult(l, up, g, query) ==
    LET S == {k \in DOMAIN l :
                 /\ GuildOf(k) = g
                 /\ ilike(chars(l[k].username), <<"%">> \o query \o <<"%">>)} IN
    IF ~up THEN <<>> ELSE LimitOffset(Ranked(l, S), SearchLimit, 0)

search_users(g, query) ==
    /\ ret' = [op |-> "search_users", guild |-> g, query |-> query,
               result |-> SearchResult(led, pool, g, query)]
    /\ UNCHANGED <<viewVars, rewardVars, batch, noteVars, pool, led, profiles, now, tx>>

\* ------------------------------------------------------------ SpecSearch
\* Every ledger of at most four entries named ann or Bob, with points 0 or
\* 1 and last_updated stamps of their own; queries in both cases, one that
\* matches nothing and two with the characters _ and %.
SearchPoints == {0, 1}
Queries ==
    {<<"a", "n">>, <<"N", "N">>, <<"o", "B">>, <<"n", "b">>, <<"o">>,
     <<"a", "_">>, <<"%", "%">>}

InitSearch ==
    /\ profiles = {}
    /\ now = 2 * Cardinality(Keys) + 1
    /\ tx = [t \in Txns |-> IdleTx]
    /\ ret = Pending
    /\ batch = NoBatch
    /\ NoViews
    /\ NoRewards
    /\ NoNotes
    /\ pool \in BOOLEAN
    /\ \E S \in SUBSET Keys :
          \E pts \in [S -> SearchPoints], names \in [S -> Names],
             ord \in [S -> 1..Cardinality(S)] :
             /\ pool \/ S = {}
             /\ \A j, k \in S : j # k => ord[j] # ord[k]
             /\ led = [k \in S |->
                          [username |-> names[k], points |-> pts[k],
                           last_updated |-> Cardinality(Keys) + ord[k],
                           created_at |-> KeyIndex(k)]]

NextSearch == \E g \in Guilds, query \in Queries : search_users(g, query)

SpecSearch == InitSearch /\ [][NextSearch]_vars

\* ------------------------------------------------------------------- C32
\* The username contains q, case-insensitively.
Contains(username, q) ==
    \E i \in 0..(Len(chars(username)) - Len(q)) :
       \A j \in 1..Len(q) : lower(chars(username)[i + j]) = lower(q[j])

\* The entries of guild g whose username contains q.
Matching(g, q) ==
    {k \in DOMAIN led : GuildOf(k) = g /\ Contains(led[k].username, q)}

\* C32: search_users returns entries of the guild whose username contains
\* the query, in the order (points descending, last_updated ascending),
\* and they are the first 50 (here SearchLimit) of all such entries.
C32_SearchIsSubstringMatch ==
    (ret.op = "search_users" /\ pool)
        => LET r == ret.result
               K == {<<ret.guild, r[i].user_id>> : i \in 1..Len(r)} IN
           /\ K \subseteq Matching(ret.guild, ret.query)
           /\ Len(r) = Min(SearchLimit,
                           Cardinality(Matching(ret.guild, ret.query)))
           /\ \A i, j \in 1..Len(r) :
                 i < j => SortsBefore(led, <<ret.guild, r[i].user_id>>,
                                      <<ret.guild, r[j].user_id>>)
           /\ \A k \in Matching(ret.guild, ret.query) \ K :
                 \A i \in 1..Len(r) :
                    SortsBefore(led, <<ret.guild, r[i].user_id>>, k)

\* The same for queries without the characters _ and %.
SearchPlainQueries ==
    (ret.op = "search_users"
       /\ \A i \in 1..Len(ret.query) : ret.query[i] \notin {"_", "%"})
        => C32_SearchIsSubstringMatch

\* ------------------------------------------------------------------- C33
\* C33: every user_profiles row has its leaderboard row; update_user_profile
\* for a member who is not in the ledger returns False and creates no row.
C33_ProfileHasEntry ==
    /\ profiles \subseteq DOMAIN led
    /\ (ret.op = "update_user_profile" /\ ret.key \notin DOMAIN led)
          => (ret.value = "False" /\ ret.key \notin profiles)

\* The removal of a member who has a profile was refused: both rows stay.
C33_Witness ==
    /\ ret.op = "remove_member"
    /\ ret.tag = "ForeignKeyViolation"
    /\ ret.key \in profiles
    /\ ret.key \in DOMAIN led

\* update_user_profile for a member without an entry.
C33_NoEntryNoProfile ==
    /\ ret.op = "update_user_profile"
    /\ pool
    /\ ret.key \notin DOMAIN led
    /\ ret.value = "False"

\* ========================================================= page navigation
\* The buttons of a view (commands.py lines 131-137 and 173-179): the page
\* moves by one when it is not the first or the last, then
\* fetch_leaderboard_data and update_embed.
previous_page(v) ==
    /\ views[v].pc = "shown"
    /\ views' = IF views[v].current_page > 1
                THEN [views EXCEPT ![v] = fetch_leaderboard_data(
                         [views[v] EXCEPT !.current_page = @ - 1], led, pool)]
                ELSE views
    /\ ret' = [op |-> "previous_page", view |-> v]
    /\ UNCHANGED <<registry, bc, rewardVars, batch, noteVars, pool, led, profiles, now,
                   tx>>

next_page(v) ==
    /\ views[v].pc = "shown"
    /\ views' = IF views[v].current_page < views[v].total_pages
                THEN [views EXCEPT ![v] = fetch_leaderboard_data(
                         [views[v] EXCEPT !.current_page = @ + 1], led, pool)]
                ELSE views
    /\ ret' = [op |-> "next_page", view |-> v]
    /\ UNCHANGED <<registry, bc, rewardVars, batch, noteVars, pool, led, profiles, now,
                   tx>>

\* ------------------------------------------------------------- SpecPages
\* One view of guild 1, whose ledger is empty or has two entries; the store
\* may be without its pool; the command is given the first page or a page
\* beyond the last; members are removed and points are added while the view
\* is shown.
PageArgs == {1, 3}

InitPages ==
    /\ pool \in BOOLEAN
    /\ led \in {<<>>,
                 [k \in {<<1, 1>>, <<1, 2>>} |->
                     [NewRow(display_name(UserOf(k)), 0)
                         EXCEPT !.points = 1, !.last_updated = 0 - UserOf(k)]]}
    /\ profiles = {}
    /\ now = 1
    /\ tx = [t \in Txns |-> IdleTx]
    /\ ret = Pending
    /\ batch = NoBatch
    /\ NoViews
    /\ NoRewards
    /\ NoNotes

NextPages ==
    \/ \E page \in PageArgs : leaderboard(1, 1, page)
    \/ leaderboard_fetched(1)
    \/ \E ok \in BOOLEAN : leaderboard_sent(1, ok)
    \/ previous_page(1)
    \/ next_page(1)
    \/ \E k \in OpKeys : remove_member(k[1], k[2])
    \/ \E k \in OpKeys : add_points(1, k, 1)
    \/ \E ok \in BOOLEAN : send_reply(1, ok)
    \/ broadcast_view(1)
    \/ \E outcome \in {"ok", "HTTPException"} : broadcast_edit(1, outcome)

SpecPages == InitPages /\ [][NextPages]_vars

\* ------------------------------------------------------------------- C34
\* View v has fetched at least once.
Fetched(v) == views[v].pc \in {"send", "shown"}

\* C34: a view that has fetched shows a page between 1 and its number of
\* pages, also for an empty ledger, a store without pool, a page argument
\* beyond the last page and after removals.
C34_PageWithinPages ==
    \A v \in ViewIds :
       Fetched(v) => /\ 1 <= views[v].current_page
                     /\ views[v].current_page <= views[v].total_pages

\* Whenever the last fetch found rows, the page is within the pages.
PageWithinPagesWhenRows ==
    \A v \in ViewIds :
       (Fetched(v) /\ views[v].leaderboard_data # <<>>)
          => /\ 1 <= views[v].current_page
             /\ views[v].current_page <= views[v].total_pages

\* ------------------------------------------------------------------- C35
\* C35: when update_active_leaderboards returns, every view of the guild
\* that was in the list when the broadcast copied it and has not been
\* retired since (by this broadcast or by anything else) was refreshed by
\* this broadcast, whatever was removed from or added to the list meanwhile.
C35_SnapshotIsIterated ==
    ret.op = "update_active_leaderboards" =>
        \A v \in ViewIds :
            (/\ InList(ret.snapshot, v)
             /\ views[v].guild_id = ret.guild
             /\ views[v].is_active
             /\ v \notin ret.retired)
                => v \in ret.called

\* The broadcast retired and unregistered the first view of its copy and
\* went on to refresh the second.
C35_Witness ==
    /\ ret.op = "update_active_leaderboards"
    /\ Len(ret.snapshot) = 2
    /\ ret.snapshot[1] \in ret.retired
    /\ ~InList(registry, ret.snapshot[1])
    /\ views[ret.snapshot[2]].guild_id = ret.guild
    /\ views[ret.snapshot[2]].is_active
    /\ ret.snapshot[2] \in ret.called

\* A view was registered while the broadcast ran.
C35_RegisteredMeanwhile ==
    /\ ret.op = "update_active_leaderboards"
    /\ Len(ret.snapshot) = 1
    /\ Len(registry) = 2
    /\ ret.snapshot[1] \in ret.called

\* ================================================ a reward in application
\* Lines 141-154 with the await of update_points as a step of its own: pc
\* "apply" is the task suspended inside update_points (line 146), whose
\* transaction has not committed.  What the task found when it got there.
Application(t) ==
    LET task == tasks[t]
        g == task.guild
        m == guild_members(g)[task.i] IN
    [task |-> t, guild |-> g, member |-> m,
     sum |-> member_rewards(task.role_config, member_roles(m)),
     last |-> last_reward(g, m), at |-> now,
     interval |-> Get(reward_intervals, g, DefaultIntervalHours),
     store |-> pool, before |-> led]

\* Lines 125-148: the member is no bot, the sum is positive, the interval
\* has passed, get_user_stats has returned and update_points is awaited.
reward_begin(t) ==
    LET task == tasks[t]
        a == Application(t) IN
    /\ task.pc = "tick"
    /\ ~task.cancelled
    /\ task.i <= Len(guild_members(task.guild))
    /\ pool
    /\ ~is_bot(a.member)
    /\ a.sum > 0 /\ interval_elapsed(a.last, now, a.interval)
    /\ tasks' = [tasks EXCEPT ![t].pc = "apply"]
    /\ ret' = Pending
    /\ UNCHANGED <<role_rewards, reward_intervals, last_reward_time,
                   active_tasks, viewVars, batch, noteVars, pool, led, profiles, now,
                   tx>>

\* Lines 146-154: update_points commits and returns; on True the time is
\* recorded and rewards_distributed counted.
reward_commit(t) ==
    LET task == tasks[t]
        a == Application(t)
        r == update_points_call(led, pool, <<a.guild, a.member>>, a.sum,
                                display_name(a.member), now) IN
    /\ task.pc = "apply"
    /\ ~task.cancelled
    /\ r.ok => r.led[<<a.guild, a.member>>].points <= MaxPoints
    /\ led' = r.led
    /\ last_reward_time' =
          record_reward(last_reward_time, r.ok, a.guild, a.member, now)
    /\ tasks' = [tasks EXCEPT ![t].pc = "tick", ![t].i = task.i + 1,
                    ![t].rewards_distributed =
                        IF r.ok THEN task.rewards_distributed + 1
                        ELSE task.rewards_distributed]
    /\ ret' = [a EXCEPT !.task = t] @@
              [op |-> IF r.ok THEN "reward: granted" ELSE "reward: failed"]
    /\ UNCHANGED <<role_rewards, reward_intervals, active_tasks, viewVars,
                   batch, noteVars, pool, profiles, now, tx>>

\* Task.cancel() while the task is suspended inside update_points: the
\* CancelledError is raised at that await; "except Exception" (leaderboard.py
\* line 251, role_rewards.py line 179) does not catch it, the transaction
\* block of line 202 rolls back on its way out, lines 151-154 are not
\* reached and the loop ends at line 105.
reward_cancelled(t) ==
    LET a == Application(t) IN
    /\ tasks[t].pc = "apply"
    /\ tasks[t].cancelled
    /\ tasks' = [tasks EXCEPT ![t].pc = "done"]
    /\ ret' = a @@ [op |-> "reward: cancelled"]
    /\ UNCHANGED <<role_rewards, reward_intervals, last_reward_time,
                   active_tasks, viewVars, batch, noteVars, pool, led, profiles, now,
                   tx>>

\* -------------------------------------------------------------- SpecStop
\* The scheduler of SpecRewards, in which a stop or a reconfiguration may
\* also arrive while a reward is being applied.
NextStop ==
    \/ NextRewards
    \/ \E t \in TaskIds : reward_begin(t)
    \/ \E t \in TaskIds : reward_commit(t)
    \/ \E t \in TaskIds : reward_cancelled(t)

SpecStop == InitRewards /\ [][NextStop]_vars

\* ------------------------------------------------------------------- C36
\* C36: when the loop is torn down by a stop or a reconfiguration that came
\* while a member's reward was being applied, that reward is in the ledger
\* (and, where the guild's reward times were kept, recorded).
C36_InFlightRewardCompletes ==
    ret.op = "reward: cancelled"
        => /\ PointsIn(led, <<ret.guild, ret.member>>)
                = PointsIn(ret.before, <<ret.guild, ret.member>>) + ret.sum
           /\ ret.guild \in DOMAIN last_reward_time
                 => last_reward(ret.guild, ret.member) = ret.at

\* ============================================== a fetch, await by await
\* fetch_leaderboard_data (commands.py lines 35-54) awaits the store twice
\* and assigns to the view when each await returns.  The store answers a
\* call at one moment and the coroutine is resumed with the answer at a
\* later one; other coroutines run in between.

\* Line 89 -> line 38: the loop takes the view at snapshot[i],
\* auto_update_leaderboard calls the fetch, and the store answers
\* _get_leaderboard_async for the page the view is on.
broadcast_query(b) ==
    LET r == bc[b] IN
    /\ r.pc = "view"
    /\ r.i <= Len(loop_views(r))
    /\ LET v == loop_views(r)[r.i] IN
       /\ LoopTakes(r.kind, r.guild, views[v])
       /\ bc' = [bc EXCEPT ![b].pc = "rows",
                           ![b].called = r.called \cup {v},
                           ![b].reply =
                               LeaderboardResult(led, pool, views[v].guild_id,
                                   views[v].current_page, ViewPerPage)]
    /\ ret' = Pending
    /\ UNCHANGED <<views, registry, rewardVars, batch, noteVars, pool, led, profiles,
                   now, tx>>

\* Lines 38-40: the coroutine is resumed with the answer and assigns
\* leaderboard_data, current_page and total_pages; line 47: it calls
\* get_total_guild_points, which the store answers.
broadcast_rows(b) ==
    LET r == bc[b]
        v == loop_views(r)[r.i] IN
    /\ r.pc = "rows"
    /\ views' = [views EXCEPT ![v].leaderboard_data = r.reply.rows,
                              ![v].current_page = r.reply.page,
                              ![v].total_pages = r.reply.total_pages]
    /\ bc' = [bc EXCEPT ![b].pc = "total",
                        ![b].reply = get_total_guild_points(led, pool,
                                         views[v].guild_id)]
    /\ ret' = Pending
    /\ UNCHANGED <<registry, rewardVars, batch, noteVars, pool, led, profiles, now,
                   tx>>

\* Lines 47-51: the coroutine is resumed with the total, assigns
\* total_guild_points and returns True; auto_update_leaderboard goes on to
\* the edit.
broadcast_total(b) ==
    LET r == bc[b]
        v == loop_views(r)[r.i] IN
    /\ r.pc = "total"
    /\ views' = [views EXCEPT ![v].total_guild_points = r.reply]
    /\ bc' = [bc EXCEPT ![b].pc = "edit", ![b].reply = <<>>]
    /\ ret' = [op |-> "fetch_leaderboard_data", view |-> v,
               was_active |-> views[v].is_active]
    /\ UNCHANGED <<registry, rewardVars, batch, noteVars, pool, led, profiles, now,
                   tx>>

\* ----------------------------------------------------------- SpecOverlap
\* The leaderboard command has shown page 1 of guild 1 in view 1, which
\* holds the ledger of InitViews.
InitOverlap ==
    /\ pool = TRUE
    /\ led = [k \in {<<1, 1>>, <<1, 2>>, <<2, 1>>} |->
                 [NewRow(display_name(UserOf(k)), 0) EXCEPT !.points = 1,
                                                !.last_updated = 0 - UserOf(k)]]
    /\ profiles = {}
    /\ now = 1
    /\ tx = [t \in Txns |-> IdleTx]
    /\ ret = Pending
    /\ batch = NoBatch
    /\ views = [v \in ViewIds |->
                  IF v = 1
                  THEN [fetch_leaderboard_data(NoView, led, pool)
                           EXCEPT !.pc = "shown", !.message = "live"]
                  ELSE NoView]
    /\ registry = <<1>>
    /\ bc = [b \in BcIds |-> IdleBc]
    /\ NoRewards
    /\ NoNotes

\* Two /addpoints handlers at a time, each replying and then broadcasting,
\* interleaved at every await of the store and of the message edit.
NextOverlap ==
    \/ \E b \in BcIds, k \in OpKeys : add_points(b, k, 1)
    \/ \E b \in BcIds : send_reply(b, TRUE)
    \/ \E b \in BcIds : broadcast_view(b)
    \/ \E b \in BcIds : broadcast_query(b)
    \/ \E b \in BcIds : broadcast_rows(b)
    \/ \E b \in BcIds : broadcast_total(b)
    \/ \E b \in BcIds, outcome \in {"ok", "HTTPException"} :
          broadcast_edit(b, outcome)

SpecOverlap == InitOverlap /\ [][NextOverlap]_vars

\* ------------------------------------------------------------------- C37
\* Every update and every broadcast has completed.
AllCompleted == \A b \in BcIds : bc[b].pc = "idle"

\* C37: once all updates and their broadcasts have completed, every Active
\* view of the guild holds the rows of the ledger for its page and the
\* guild's total.
C37_QuiescentViewsCurrent ==
    AllCompleted =>
        \A v \in ViewIds : ActiveFor(v, 1) => HoldsLedger(v)

\* ------------------------------------------------------------------- C38
\* C38: a next threshold that get_next_rank_info returns is greater than the
\* member's points, for every points value and role list, so that the
\* "Points Needed" of the stats card (utils.py line 371: next_threshold -
\* stats['points']) is positive.
C38_ThresholdAbovePoints ==
    (ret.op = "get_next_rank_info" /\ ret.value[2] # NoneVal)
        => ret.value[2] - ret.points > 0

\* The same for a call without member object and fewer than 750 points:
\* there the title is the one of the points alone.
ThresholdAbovePointsByPointsAlone ==
    (/\ ret.op = "get_next_rank_info"
     /\ ret.value[2] # NoneVal
     /\ ret.member = NoMember
     /\ ret.points < 750)
        => ret.value[2] - ret.points > 0

\* ------------------------------------------------------------------- C39
\* The last-reward time of member m of guild g in the table times (None
\* when there is none).
RewardTime(times, g, m) == Get(Get(times, g, <<>>), m, NoneVal)

\* C39: the loop records a member's last-reward time exactly when
\* update_points returned success for that member.  A step of the loop
\* (the one that sets ret to the member's outcome) in which the
\* update succeeded records the time of the step and adds the member's sum
\* to the member's points; a step in which it failed leaves the reward
\* times and the ledger as they were, so that the member is as due at the
\* next tick as before; and no step gives a member a new reward time
\* without adding to the member's points.
C39_RecordedIffApplied ==
    [][/\ (ret' # ret /\ ret'.op = "reward: granted")
           => /\ RewardTime(last_reward_time', ret'.guild, ret'.member) = ret'.at
              /\ PointsIn(led', <<ret'.guild, ret'.member>>)
                   = PointsIn(led, <<ret'.guild, ret'.member>>) + ret'.sum
       /\ (ret' # ret /\ ret'.op = "reward: failed")
           => /\ last_reward_time' = last_reward_time
              /\ led' = led
       /\ \A g \in RewardGuilds : \A m \in Range(guild_members(g)) :
             (RewardTime(last_reward_time', g, m) # last_reward(g, m)
                 /\ RewardTime(last_reward_time', g, m) # NoneVal)
                => /\ ret' # ret /\ ret'.op = "reward: granted"
                   /\ ret'.guild = g /\ ret'.member = m
                   /\ PointsIn(led', <<g, m>>) > PointsIn(led, <<g, m>>)
      ]_vars

\* An update by the loop has failed for a member who was due, and the
\* member's reward time is the one from before.
C39_Witness ==
    /\ ret.op = "reward: failed"
    /\ ret.sum > 0
    /\ last_reward(ret.guild, ret.member) = ret.last
    /\ led = ret.before

\* --------------------------------------------------------- SpecIsolation
\* The ledger of InitViews (two guilds); views of either guild are opened,
\* points handlers of guild 1 run and broadcast with either loop, and
\* member 2 of guild 1 joins and leaves.
NextIsolation ==
    \/ \E v \in ViewIds, g \in Guilds, page \in ViewPages :
          leaderboard(v, g, page)
    \/ \E v \in ViewIds : leaderboard_fetched(v)
    \/ \E v \in ViewIds : leaderboard_sent(v, TRUE)
    \/ add_points(1, <<1, 1>>, 1)
    \/ remove_points(1, <<1, 2>>, 1)
    \/ send_reply(1, TRUE)
    \/ broadcast_view(1)
    \/ \E outcome \in {"ok", "no message"} : broadcast_edit(1, outcome)
    \/ add_member(1, 2, "Bob")
    \/ remove_member(1, 2)

SpecIsolation == InitViews /\ [][NextIsolation]_vars

\* ------------------------------------------------------------------- C40
\* Every view a broadcast in flight has called auto_update_leaderboard on,
\* and the view it is about to edit, belongs to the broadcast's guild.
BroadcastStaysInGuild ==
    \A b \in BcIds :
        /\ \A v \in bc[b].called : views[v].guild_id = bc[b].guild
        /\ bc[b].pc = "edit"
              => views[bc[b].snapshot[bc[b].i]].guild_id = bc[b].guild

\* C40: a step that changes the ledger is a step of update_points,
\* add_member or remove_member on one key and leaves every other entry of
\* every guild as it was; and a broadcast for a guild fetches for and edits
\* only views of that guild, the views of other guilds staying as they
\* were.
C40_IsolatedPerKeyAndGuild ==
    [][/\ led' # led
           => /\ ret'.op \in {"add_points", "remove_points", "add_member",
                              "remove_member"}
              /\ \A j \in (DOMAIN led \cup DOMAIN led') \ {ret'.key} :
                    /\ j \in DOMAIN led /\ j \in DOMAIN led'
                    /\ led'[j] = led[j]
       /\ BroadcastStaysInGuild'
       /\ \A b \in BcIds : \A v \in ViewIds :
             (/\ bc[b].pc \in {"view", "edit"}
              /\ bc'[b] # bc[b]
              /\ views[v].pc # "none"
              /\ views[v].guild_id # bc[b].guild)
                => views'[v] = views[v]
      ]_vars

\* A broadcast for guild 1 has refreshed a view of guild 1 and passed over
\* an Active view of guild 2 in its list, and the entry of guild 2 is the
\* one of the beginning although points of guild 1 have changed.
C40_Witness ==
    /\ ret.op = "update_active_leaderboards"
    /\ ret.guild = 1
    /\ \E v, w \in ViewIds :
          /\ v \in ret.called
          /\ views[w].guild_id = 2 /\ views[w].is_active
          /\ InList(ret.snapshot, w)
          /\ w \notin ret.called
    /\ led[<<2, 1>>].points = 1
    /\ \E k \in OpKeys : k \in DOMAIN led /\ led[k].points # 1

====
